---- MODULE Spec2Model ----
(***************************************************************************)
(* PR review function (src/PRReviewFunction/index.js) as a state machine.  *)
(* One invocation of the exported handler is a sequence of steps, each     *)
(* step being the code that runs between two awaits: the arrival of one    *)
(* remote answer (or failure) followed by the continuation up to the next  *)
(* remote call.  Remote collaborators (guidelines loader, version-control  *)
(* client, AI model) answer from the scenario in `world` or fail.          *)
(***************************************************************************)
EXTENDS Integers, Sequences, FiniteSets, TLC

VARIABLES
    clock,    \* what Date.now() returns, in steps of the clock's resolution
    env,      \* process.env, shared by every invocation
    world,    \* what the remote collaborators answer (repository, PR, files, model)
    remote,   \* what this system has written to the remote: threads, pushes, PRs
    inv       \* per invocation: request, position, locals, terminal response

vars == <<clock, env, world, remote, inv>>

----------------------------------------------------------------------------
(* JavaScript values, tagged so that values of different types compare.    *)

Undef == [t |-> "undefined"]
Null == [t |-> "null"]
NaN == [t |-> "NaN"]
Num(n) == [t |-> "number", n |-> n]
Str(s) == [t |-> "string", s |-> s]
Obj == [t |-> "object"]

\* JavaScript truthiness: undefined, null, NaN, 0 and "" are falsy
Truthy(v) ==
    CASE v.t = "undefined" -> FALSE
      [] v.t = "null" -> FALSE
      [] v.t = "NaN" -> FALSE
      [] v.t = "number" -> v.n # 0
      [] v.t = "string" -> v.s # <<>>
      [] OTHER -> TRUE

\* String.prototype.startsWith
startsWith(s, prefix) ==
    /\ Len(s) >= Len(prefix)
    /\ SubSeq(s, 1, Len(prefix)) = prefix

\* String.prototype.includes
includes(s, part) ==
    \E i \in 1..(Len(s) - Len(part) + 1) : SubSeq(s, i, i + Len(part) - 1) = part

\* Strings are sequences of pieces; the pieces that have an upper-case form
LowerPiece(p) ==
    CASE p = "AI:" -> "ai:"
      [] p = "Ai:" -> "ai:"
      [] p = "[AI Suggested Fixes]" -> "[ai suggested fixes]"
      [] p = "TRUE" -> "true"
      [] p = "True" -> "true"
      [] p = "Fix" -> "fix"
      [] OTHER -> p

\* String.prototype.toLowerCase
toLowerCase(s) == [i \in 1..Len(s) |-> LowerPiece(s[i])]

----------------------------------------------------------------------------
(* File contents are sequences of characters.                              *)

LF == "\n"
CR == "\r"
SP == " "
Whitespace == {LF, CR, SP}

StripCR(line) ==
    IF Len(line) > 0 /\ line[Len(line)] = CR THEN SubSeq(line, 1, Len(line) - 1) ELSE line

RECURSIVE SplitFrom(_, _, _)
SplitFrom(content, i, cur) ==
    IF i > Len(content) THEN <<cur>>
    ELSE IF content[i] = LF
         THEN <<StripCR(cur)>> \o SplitFrom(content, i + 1, <<>>)
         ELSE SplitFrom(content, i + 1, Append(cur, content[i]))

\* content.split(/\r?\n/)
splitLines(content) == SplitFrom(content, 1, <<>>)

RECURSIVE TrimStart(_)
TrimStart(s) ==
    IF Len(s) > 0 /\ s[1] \in Whitespace THEN TrimStart(Tail(s)) ELSE s

RECURSIVE TrimEnd(_)
TrimEnd(s) ==
    IF Len(s) > 0 /\ s[Len(s)] \in Whitespace THEN TrimEnd(SubSeq(s, 1, Len(s) - 1)) ELSE s

\* String.prototype.trim
trim(s) == TrimEnd(TrimStart(s))

----------------------------------------------------------------------------
(* Numbers as the review engine handles them.                              *)

Digits == {"0", "1", "2", "3", "4", "5", "6", "7", "8", "9"}

DigitValue(d) ==
    CASE d = "0" -> 0 [] d = "1" -> 1 [] d = "2" -> 2 [] d = "3" -> 3 [] d = "4" -> 4
      [] d = "5" -> 5 [] d = "6" -> 6 [] d = "7" -> 7 [] d = "8" -> 8 [] d = "9" -> 9

RECURSIVE ParseDigits(_, _)
ParseDigits(s, acc) ==
    IF s = <<>> THEN acc ELSE ParseDigits(Tail(s), 10 * acc + DigitValue(Head(s)))

\* Number(v): numbers stay, null and "" are 0, a digit string is its value,
\* undefined, objects and other strings are NaN
Number(v) ==
    CASE v.t = "number" -> v
      [] v.t = "null" -> Num(0)
      [] v.t = "string" ->
            IF \A i \in 1..Len(v.s) : v.s[i] \in Digits THEN Num(ParseDigits(v.s, 0)) ELSE NaN
      [] OTHER -> NaN

\* Math.max(a, b) and Math.min(a, b): NaN if either argument is NaN
MathMax(a, b) ==
    IF a.t = "NaN" \/ b.t = "NaN" THEN NaN ELSE Num(IF a.n >= b.n THEN a.n ELSE b.n)

MathMin(a, b) ==
    IF a.t = "NaN" \/ b.t = "NaN" THEN NaN ELSE Num(IF a.n <= b.n THEN a.n ELSE b.n)

\* a > b and a <= b on numbers: every comparison with NaN is false
Greater(a, b) == a.t = "number" /\ b.t = "number" /\ a.n > b.n
LessEq(a, b) == a.t = "number" /\ b.t = "number" /\ a.n <= b.n

----------------------------------------------------------------------------
(* Guideline-bound review engine: generateComments.                        *)

\* The error the timer rejects with (index.js line 555)
TimeoutError ==
    [message |-> <<"AI model request ", "timed out", " after 25 seconds">>,
     code |-> Undef, causeCode |-> Undef]

\* The TypeError raised when the model's output does not have the expected shape
TypeError == [message |-> <<"TypeError">>, code |-> Undef, causeCode |-> Undef]

\* The catch block's classification of an error (lines 667-681)
classifyError(error) ==
    IF includes(error.message, <<"timed out">>)
    THEN "AI model request timed out - the service may be experiencing high load"
    ELSE IF error.code = Str(<<"ETIMEDOUT">>) \/ error.causeCode = Str(<<"ETIMEDOUT">>)
    THEN "Network timeout connecting to AI service"
    ELSE IF error.code = Str(<<"ECONNREFUSED">>)
    THEN "Connection refused by AI service"
    ELSE "AI analysis failed"

\* Whether result.comments.map(comment => comment.lineNumber ...) raises: the
\* result is null, comments is missing or no array, or an element is null
MapRaises(result) ==
    \/ result.t # "object"
    \/ result.comments.t # "array"
    \/ \E k \in 1..Len(result.comments.items) : result.comments.items[k].t # "object"

\* Variant: the line number is converted but not clamped
clampLine_unclamped(lineNumber, lineCount) == Number(lineNumber)

\* Math.min(Math.max(1, Number(lineNumber)), newLines.length) (lines 650-653)
clampLine(lineNumber, lineCount) ==
    MathMin(MathMax(Num(1), Number(lineNumber)), Num(lineCount))

\* Variant: nothing is filtered
keepComment_always(comment, lineCount) == TRUE

\* The filter of lines 656-659
keepComment(comment, lineCount) ==
    /\ Greater(comment.lineNumber, Num(0))
    /\ LessEq(comment.lineNumber, Num(lineCount))

\* result.comments.map(...).filter(...) (lines 648-659)
mapComments(items, lineCount) ==
    SelectSeq([k \in 1..Len(items) |->
                  [lineNumber |-> clampLine(items[k].lineNumber, lineCount),
                   comment |-> items[k].comment]],
              LAMBDA c : keepComment(c, lineCount))

\* The value returned from the catch block (lines 687-690)
failureOutcome(newContent, error) ==
    [comments |-> <<>>, newContent |-> Str(newContent), error |-> Str(<<classifyError(error)>>)]

\* Variant: no short circuit
contentsIdentical_never(oldContent, newContent) == FALSE

\* The identical-content short circuit (line 541)
contentsIdentical(oldContent, newContent) == oldContent = newContent

\* generateComments(oldContent, newContent, ...), given what the race of the
\* model call against the timer settles to:
\*   [kind |-> "resolved", value |-> the parsed model output]
\*   [kind |-> "rejected", error |-> the error of the chain or of the timer]
generateComments(oldContent, newContent, settled) ==
    IF contentsIdentical(oldContent, newContent)
    THEN [comments |-> <<>>, newContent |-> Str(newContent), error |-> Undef]
    ELSE IF settled.kind = "rejected"
    THEN failureOutcome(newContent, settled.error)
    ELSE IF MapRaises(settled.value)
    THEN failureOutcome(newContent, TypeError)
    ELSE [comments |-> mapComments(settled.value.comments.items,
                                   Len(splitLines(newContent))),
          newContent |-> settled.value.newContent,
          error |-> Undef]

\* Variant: every suggestion is accepted
validateCorrection_always(original, corrected) == TRUE

\* validateCorrection(original, corrected), for a string `corrected` (line 802)
validateCorrection(original, corrected) == Len(trim(corrected)) # 0

\* Whether the correction test of line 325 raises: analysis.newContent differs
\* from newContent and is no string, so that corrected.trim is not a function
correctionRaises(newContent, analysis) ==
    /\ analysis.newContent # Str(newContent)
    /\ analysis.newContent.t # "string"

\* Whether line 325 records a correction
recordsCorrection(newContent, analysis) ==
    /\ analysis.newContent # Str(newContent)
    /\ analysis.newContent.t = "string"
    /\ validateCorrection(newContent, analysis.newContent.s)

\* Math.max(1, lineNumber) of createCommentThread (line 706)
azureLine(lineNumber) == MathMax(Num(1), lineNumber)

\* Variant: the comment text is submitted as it is
threadOf_unmarked(commentText, filePath, lineNumber) ==
    [content |-> <<commentText>>,
     filePath |-> filePath,
     line |-> azureLine(lineNumber)]

\* The thread createCommentThread submits (lines 708-720)
threadOf(commentText, filePath, lineNumber) ==
    [content |-> <<"[AI Review] ", commentText>>,
     filePath |-> filePath,
     line |-> azureLine(lineNumber)]

----------------------------------------------------------------------------
(* Event gate: the handler up to its first await (lines 40-178).           *)

\* Variant: every string parses
urlParses_lenient(remoteUrl) == remoteUrl.t = "string"

\* new URL(remoteUrl) succeeds on <<scheme, host, path pieces...>>
urlParses(remoteUrl) ==
    /\ remoteUrl.t = "string"
    /\ Len(remoteUrl.s) >= 2
    /\ remoteUrl.s[1] \in {"https://", "http://"}

RECURSIVE SplitPath(_, _, _)
SplitPath(pieces, i, cur) ==
    IF i > Len(pieces) THEN <<cur>>
    ELSE IF pieces[i] = "/"
         THEN <<cur>> \o SplitPath(pieces, i + 1, <<>>)
         ELSE SplitPath(pieces, i + 1, Append(cur, pieces[i]))

\* Variant: the empty segments are kept
pathParts_unfiltered(remoteUrl) ==
    SplitPath(SubSeq(remoteUrl.s, 4, Len(remoteUrl.s)), 1, <<>>)

\* url.pathname.split('/').filter(p => p) (line 102)
pathParts(remoteUrl) ==
    SelectSeq(SplitPath(SubSeq(remoteUrl.s, 3, Len(remoteUrl.s)), 1, <<>>),
              LAMBDA seg : seg # <<>>)

PREventPrefix == <<"git.pullrequest.">>

\* Variant: the prefix is looked for anywhere in the event type
isPullRequestEvent_anywhere(eventType) == includes(eventType, PREventPrefix)

\* eventType.startsWith('git.pullrequest.') (line 67)
isPullRequestEvent(eventType) == startsWith(eventType, PREventPrefix)

\* Variant: only the resource is required
missingPRInformation_resourceOnly(rq) == ~Truthy(rq.resource)

\* !resource || !resource.pullRequestId (line 78)
missingPRInformation(rq) == ~Truthy(rq.resource) \/ ~Truthy(rq.pullRequestId)

\* Variant: the prefix is compared without lower-casing the title
isAIGeneratedTitle_caseSensitive(prTitle) ==
    \/ startsWith(prTitle, <<"ai:">>)
    \/ includes(prTitle, <<"[AI Suggested Fixes]">>)

\* The self-recursion guard of lines 88-89
isAIGeneratedTitle(prTitle) ==
    \/ startsWith(toLowerCase(prTitle), <<"ai:">>)
    \/ includes(prTitle, <<"[AI Suggested Fixes]">>)

\* process.env.CREATE_NEW_PR ? ....toLowerCase() === 'true' : false (line 124)
createNewPrOf(e) ==
    IF Truthy(e.CREATE_NEW_PR) THEN toLowerCase(e.CREATE_NEW_PR.s) = <<"true">> ELSE FALSE

\* The config object of lines 111-126 (the fields the flow depends on)
configOf(rq, e) ==
    [ORG |-> pathParts(rq.remoteUrl)[1],
     PR_ID |-> rq.pullRequestId,
     GEMINI_API_KEY |-> e.GEMINI_API_KEY,
     OPENAI_API_KEY |-> e.OPENAI_API_KEY,
     AZURE_OPENAI_API_KEY |-> e.AZURE_OPENAI_API_KEY,
     CREATE_NEW_PR |-> createNewPrOf(e)]

NoConfig == [ORG |-> <<>>, PR_ID |-> Undef, GEMINI_API_KEY |-> Undef,
             OPENAI_API_KEY |-> Undef, AZURE_OPENAI_API_KEY |-> Undef,
             CREATE_NEW_PR |-> FALSE]

\* Variant: only the access token is required
missingVars_patOnly(e) ==
    SelectSeq(<<"AZURE_PAT">>, LAMBDA v : ~Truthy(e[v]))

\* missingVars of lines 138-145
missingVars(e) ==
    SelectSeq(<<"AZURE_PAT", "INSTRUCTION_SOURCE">>, LAMBDA v : ~Truthy(e[v]))

----------------------------------------------------------------------------
(* The state of one invocation.                                            *)

NoRes == [status |-> 0, body |-> "none"]
NoRead == [st |-> "none"]
Pending == [st |-> "pending"]
NoAnalysis == [comments |-> <<>>, newContent |-> Undef, error |-> Undef]
NoPR == [t |-> "none"]

NewInvocation(rq) ==
    [req |-> rq,
     pc |-> "start",
     res |-> NoRes,          \* context.res
     calls |-> <<>>,         \* every remote call issued, in order
     logs |-> {},            \* the outcome messages written to context.log
     config |-> NoConfig,
     model |-> "none",
     pr |-> NoPR,            \* targetPR
     entries |-> <<>>,       \* prChanges.changeEntries || []
     idx |-> 0,              \* position of the file loop
     oldRead |-> NoRead,     \* the two reads of Promise.all
     newRead |-> NoRead,
     analysis |-> NoAnalysis,
     outcomes |-> <<>>,      \* every outcome generateComments returned, with its file
     cidx |-> 0,             \* position of the comment loop
     corrections |-> <<>>,
     now |-> 0,              \* Date.now() as createCorrectionPR read it, 0 before
     racing |-> {},          \* promises that lost a Promise.race and have not settled
     late |-> {},            \* promises that settled after their race was decided
     baseCommitId |-> Undef]

\* context.res = {status, body}; return
respond(s, status, body) ==
    [s EXCEPT !.pc = "done", !.res = [status |-> status, body |-> body]]

\* Variant: the catch block answers with a success status
catchError_success(s) == respond(s, 200, "PR review failed")

\* The handler's catch block (lines 197-205)
catchError(s) == respond(s, 500, "PR review failed")

\* A remote call is issued
call(s, c) == [s EXCEPT !.calls = Append(@, c)]

\* Variant: the query flag is not looked at
isTestRun_never(rq) == FALSE

\* req.query && req.query.testOnly === 'true' (line 158)
isTestRun(rq) == rq.testOnly = Str(<<"true">>)

\* Lines 44-178: validation, configuration, and the call of loadGuidelines
gate(s, e) ==
    LET rq == s.req IN
    IF ~Truthy(rq.body)
    THEN respond(s, 400, "Invalid webhook payload: Body is empty")
    ELSE IF ~Truthy(rq.eventType)
    THEN respond(s, 400, "Missing eventType in payload")
    ELSE IF rq.eventType.t # "string"
    THEN catchError(s)          \* eventType.startsWith is not a function
    ELSE IF ~isPullRequestEvent(rq.eventType.s)
    THEN respond(s, 200, "Ignoring non-PR event")
    ELSE IF missingPRInformation(rq)
    THEN respond(s, 400, "Missing PR information in payload")
    ELSE IF Truthy(rq.title) /\ rq.title.t # "string"
    THEN catchError(s)          \* prTitle.toLowerCase is not a function
    ELSE IF Truthy(rq.title) /\ isAIGeneratedTitle(rq.title.s)
    THEN respond(s, 200, "Skipped AI-generated PR")
    ELSE IF ~Truthy(rq.repository)
    THEN catchError(s)          \* repository.remoteUrl of undefined
    ELSE IF ~urlParses(rq.remoteUrl)
    THEN catchError(s)          \* new URL(remoteUrl) throws
    ELSE IF Len(pathParts(rq.remoteUrl)) < 3
    THEN catchError(s)          \* "URL path doesn't contain enough segments"
    ELSE IF Len(missingVars(e)) > 0
    THEN respond(s, 500, "Missing required environment variables")
    ELSE IF isTestRun(rq)
    THEN respond([s EXCEPT !.config = configOf(rq, e)], 200, "Test run completed successfully")
    ELSE call([s EXCEPT !.config = configOf(rq, e), !.pc = "loadGuidelines"],
              [op |-> "loadGuidelines"])

----------------------------------------------------------------------------
(* processPullRequest: the continuations between its awaits.               *)

\* Variant: the Gemini key is looked at first
initializeAIModel_geminiFirst(config) ==
    IF Truthy(config.GEMINI_API_KEY) THEN "ChatGoogleGenerativeAI"
    ELSE IF Truthy(config.AZURE_OPENAI_API_KEY) THEN "AzureChatOpenAI"
    ELSE IF Truthy(config.OPENAI_API_KEY) THEN "ChatOpenAI"
    ELSE "none"

\* initializeAIModel (lines 213-239): the client constructed, "none" when it throws
initializeAIModel(config) ==
    IF Truthy(config.AZURE_OPENAI_API_KEY) THEN "AzureChatOpenAI"
    ELSE IF Truthy(config.OPENAI_API_KEY) THEN "ChatOpenAI"
    ELSE IF Truthy(config.GEMINI_API_KEY) THEN "ChatGoogleGenerativeAI"
    ELSE "none"

\* Lines 193-196: processPullRequest returned
finish(s) == respond(s, 200, "PR review completed successfully")

\* ref.replace("refs/heads/", "") (lines 394 and 737)
shortName(ref) ==
    IF \E i \in 1..Len(ref) : ref[i] = "refs/heads/"
    THEN LET i == CHOOSE j \in 1..Len(ref) :
                      ref[j] = "refs/heads/" /\ \A m \in 1..(j - 1) : ref[m] # "refs/heads/"
         IN SubSeq(ref, 1, i - 1) \o SubSeq(ref, i + 1, Len(ref))
    ELSE ref

\* Variant: unapplied suggestions are reported like no suggestions
afterLoop_sameLog(s) ==
    IF Len(s.corrections) > 0 /\ s.config.CREATE_NEW_PR
    THEN call([s EXCEPT !.pc = "getBranch", !.now = clock],
              [op |-> "getBranch", name |-> shortName(s.pr.sourceRefName.s)])
    ELSE respond([s EXCEPT !.logs = @ \cup {"No AI-suggested changes to apply."}],
                 200, "PR review completed successfully")

\* Lines 334-350, and the start of createCorrectionPR (lines 736-742)
afterLoop(s) ==
    IF Len(s.corrections) > 0
    THEN IF s.config.CREATE_NEW_PR
         THEN call([s EXCEPT !.pc = "getBranch", !.now = clock],
                   [op |-> "getBranch", name |-> shortName(s.pr.sourceRefName.s)])
         ELSE finish([s EXCEPT !.logs = @ \cup {"AI-suggested changes available"}])
    ELSE finish([s EXCEPT !.logs = @ \cup {"No AI-suggested changes to apply."}])

\* Variant: folders are not skipped
reviewable_folders(change) == Truthy(change.path)

\* Line 300: the entries the loop does not skip
reviewable(change) == Truthy(change.path) /\ ~change.isFolder

\* The first entry at or after k that the loop processes, 0 if none
nextFile(entries, k) ==
    IF \E j \in k..Len(entries) : reviewable(entries[j])
    THEN CHOOSE j \in k..Len(entries) :
             reviewable(entries[j]) /\ \A m \in k..(j - 1) : ~reviewable(entries[m])
    ELSE 0

\* Lines 298-306: the loop advances to the next file and issues both reads
startFile(s, k) ==
    LET j == nextFile(s.entries, k) IN
    IF j = 0 THEN afterLoop(s)
    ELSE [s EXCEPT !.pc = "fetch", !.idx = j, !.cidx = 0,
                   !.analysis = NoAnalysis,
                   !.oldRead = Pending, !.newRead = Pending,
                   !.calls = @ \o <<[op |-> "getItemContent", k |-> j, ref |-> "target"],
                                    [op |-> "getItemContent", k |-> j, ref |-> "source"]>>]

\* The correction line 326 pushes
correctionOf(itemPath, newContent, analysis) ==
    [path |-> itemPath, originalContent |-> newContent,
     correctedContent |-> analysis.newContent.s]

\* The entry a correction was made for: the correction's place in the model only
correctionAt(k, correction) == [k |-> k] @@ correction

\* Lines 324-332: the correction test after the last thread, then the next file
afterThreads(s) ==
    LET newContent == s.newRead.content IN
    IF correctionRaises(newContent, s.analysis)
    THEN catchError(s)
    ELSE IF recordsCorrection(newContent, s.analysis)
    THEN startFile([s EXCEPT !.corrections =
                        Append(@, correctionAt(s.idx, correctionOf(s.entries[s.idx].path,
                                                                   newContent, s.analysis)))],
                   s.idx + 1)
    ELSE startFile(s, s.idx + 1)

\* Variant: the comments are posted last to first
threadCall_reversed(s, c) ==
    LET r == Len(s.analysis.comments) + 1 - c IN
    [op |-> "createThread", k |-> s.idx,
     thread |-> threadOf(s.analysis.comments[r].comment, s.entries[s.idx].path,
                         s.analysis.comments[r].lineNumber)]

\* The createCommentThread call for comment c of the current file (lines 313-321)
threadCall(s, c) ==
    [op |-> "createThread", k |-> s.idx,
     thread |-> threadOf(s.analysis.comments[c].comment, s.entries[s.idx].path,
                         s.analysis.comments[c].lineNumber)]

\* Lines 309-322: generateComments returned `analysis`
afterAnalysis(s, analysis) ==
    LET s1 == [s EXCEPT !.analysis = analysis,
                        !.outcomes = Append(@, [k |-> s.idx, outcome |-> analysis])] IN
    IF Len(analysis.comments) > 0
    THEN call([s1 EXCEPT !.pc = "thread", !.cidx = 1], threadCall(s1, 1))
    ELSE afterThreads(s1)

\* Lines 303-309 once both reads are in: generateComments up to the model call
afterReads(s) ==
    IF contentsIdentical(s.oldRead.content, s.newRead.content)
    THEN afterAnalysis(s, generateComments(s.oldRead.content, s.newRead.content,
                                           [kind |-> "none"]))
    ELSE call([s EXCEPT !.pc = "model"], [op |-> "invoke", k |-> s.idx])

----------------------------------------------------------------------------
(* Steps of one invocation i: one remote answer and the code that follows. *)

step(i, s) == inv' = [inv EXCEPT ![i] = s]

\* The handler runs from its entry to loadGuidelines or to an early return
Gate(i) ==
    /\ inv[i].pc = "start"
    /\ step(i, gate(inv[i], env))
    /\ UNCHANGED <<clock, env, world, remote>>

\* Lines 178-191 and 247-260: guidelines loaded, model client built, getGitApi called
GuidelinesLoaded(i) ==
    /\ inv[i].pc = "loadGuidelines"
    /\ LET m == initializeAIModel(inv[i].config) IN
       step(i, IF m = "none"
               THEN catchError(inv[i])      \* "No AI model API key provided"
               ELSE call([inv[i] EXCEPT !.model = m, !.pc = "getGitApi"],
                         [op |-> "getGitApi"]))
    /\ UNCHANGED <<clock, env, world, remote>>

\* Variant: the failure is logged and the review goes on without guidelines
guidelinesFailed_proceeds(s) ==
    call([s EXCEPT !.logs = @ \cup {"Failed to load review guidelines"},
                   !.model = "ChatGoogleGenerativeAI", !.pc = "getGitApi"],
         [op |-> "getGitApi"])

\* The catch block of lines 180-188
guidelinesFailed(s) ==
    respond([s EXCEPT !.logs = @ \cup {"Failed to load review guidelines"}],
            500, "Failed to load review guidelines")

\* Lines 180-188: loadGuidelines threw
GuidelinesFailed(i) ==
    /\ inv[i].pc = "loadGuidelines"
    /\ step(i, guidelinesFailed(inv[i]))
    /\ UNCHANGED <<clock, env, world, remote>>

\* Lines 260-263
GitApiReady(i) ==
    /\ inv[i].pc = "getGitApi"
    /\ step(i, call([inv[i] EXCEPT !.pc = "getRepositories"], [op |-> "getRepositories"]))
    /\ UNCHANGED <<clock, env, world, remote>>

\* Lines 263-268
RepositoriesListed(i) ==
    /\ inv[i].pc = "getRepositories"
    /\ step(i, IF ~world.repoFound
               THEN catchError(inv[i])      \* "Repository not found"
               ELSE call([inv[i] EXCEPT !.pc = "getPullRequest"],
                         [op |-> "getPullRequest", id |-> inv[i].config.PR_ID]))
    /\ UNCHANGED <<clock, env, world, remote>>

\* Variant: drafts are reviewed like any pull request
isDraftPR_never(targetPR) == FALSE

\* targetPR.isDraft (line 271)
isDraftPR(targetPR) == targetPR.isDraft

\* Variant: only the id is required
prIncomplete_idOnly(targetPR) == ~Truthy(targetPR.pullRequestId)

\* Line 276: the pull request lacks its id or a ref name
prIncomplete(targetPR) ==
    \/ ~Truthy(targetPR.pullRequestId)
    \/ ~Truthy(targetPR.sourceRefName)
    \/ ~Truthy(targetPR.targetRefName)

\* Lines 268-281
PullRequestFetched(i) ==
    /\ inv[i].pc = "getPullRequest"
    /\ LET targetPR == world.pr
           s == [inv[i] EXCEPT !.pr = targetPR]
       IN
       step(i, IF targetPR.t # "object"
               THEN catchError(s)           \* targetPR.isDraft of null
               ELSE IF isDraftPR(targetPR)
               THEN finish([s EXCEPT !.logs = @ \cup {"Skipping draft pull request"}])
               ELSE IF prIncomplete(targetPR)
               THEN catchError(s)           \* "PR not found or missing ref names"
               ELSE call([s EXCEPT !.pc = "getIterations"],
                         [op |-> "getPullRequestIterations"]))
    /\ UNCHANGED <<clock, env, world, remote>>

\* Lines 281-290
IterationsListed(i) ==
    /\ inv[i].pc = "getIterations"
    /\ LET iterations == world.iterations
           latestIterationId ==
               IF Len(iterations) = 0 THEN Undef ELSE iterations[Len(iterations)].id
       IN step(i, IF ~Truthy(latestIterationId)
                  THEN catchError(inv[i])   \* "No iterations found"
                  ELSE call([inv[i] EXCEPT !.pc = "getChanges"],
                            [op |-> "getPullRequestIterationChanges",
                             iteration |-> latestIterationId]))
    /\ UNCHANGED <<clock, env, world, remote>>

\* Lines 285-306: the changed files arrive and the file loop starts
ChangesListed(i) ==
    /\ inv[i].pc = "getChanges"
    /\ LET entries == IF world.changeEntries.t = "array" THEN world.changeEntries.items
                      ELSE <<>>
       IN step(i, startFile([inv[i] EXCEPT !.entries = entries], 1))
    /\ UNCHANGED <<clock, env, world, remote>>

\* A version-control read before the file loop rejects: the handler's catch
RemoteReadFailed(i) ==
    /\ inv[i].pc \in {"getGitApi", "getRepositories", "getPullRequest",
                      "getIterations", "getChanges"}
    /\ step(i, catchError(inv[i]))
    /\ UNCHANGED <<clock, env, world, remote>>

\* getFileContent (lines 389-406) returns for the target ref
OldContentRead(i) ==
    /\ inv[i].pc = "fetch"
    /\ inv[i].oldRead = Pending
    /\ LET s == [inv[i] EXCEPT !.oldRead =
                    [st |-> "ok", content |-> world.changeEntries.items[inv[i].idx].old]]
       IN step(i, IF s.newRead.st = "ok" THEN afterReads(s) ELSE s)
    /\ UNCHANGED <<clock, env, world, remote>>

\* getFileContent returns for the source ref
NewContentRead(i) ==
    /\ inv[i].pc = "fetch"
    /\ inv[i].newRead = Pending
    /\ LET s == [inv[i] EXCEPT !.newRead =
                    [st |-> "ok", content |-> world.changeEntries.items[inv[i].idx].new]]
       IN step(i, IF s.oldRead.st = "ok" THEN afterReads(s) ELSE s)
    /\ UNCHANGED <<clock, env, world, remote>>

\* Variant: a failed read counts as empty content
readFailed_empty(s) ==
    LET s1 == [s EXCEPT !.oldRead = IF @.st = "failed"
                                    THEN [st |-> "ok", content |-> <<>>] ELSE @,
                        !.newRead = IF @.st = "failed"
                                    THEN [st |-> "ok", content |-> <<>>] ELSE @]
    IN IF s1.oldRead.st = "ok" /\ s1.newRead.st = "ok" THEN afterReads(s1) ELSE s1

\* Lines 303-306 and 407-410: getFileContent rethrows, Promise.all rejects,
\* nothing in processPullRequest catches it, the handler's catch answers
readFailed(s) == catchError(s)

\* getFileContent throws for one of the two refs
ContentReadFailed(i) ==
    /\ inv[i].pc = "fetch"
    /\ \/ /\ inv[i].oldRead = Pending
          /\ step(i, readFailed([inv[i] EXCEPT !.oldRead = [st |-> "failed"]]))
       \/ /\ inv[i].newRead = Pending
          /\ step(i, readFailed([inv[i] EXCEPT !.newRead = [st |-> "failed"]]))
    /\ UNCHANGED <<clock, env, world, remote>>

\* What the chain settles to when the model answers: the JSON parser rejects
\* what it cannot parse
chainSettles(answer) ==
    IF answer.t = "unparsable"
    THEN [kind |-> "rejected",
          error |-> [message |-> <<"Failed to parse">>, code |-> Undef, causeCode |-> Undef]]
    ELSE [kind |-> "resolved", value |-> answer]

\* Errors of the transport to the model service
TransportErrors ==
    {[message |-> <<"connect ETIMEDOUT">>, code |-> Str(<<"ETIMEDOUT">>), causeCode |-> Undef],
     [message |-> <<"fetch failed">>, code |-> Undef, causeCode |-> Str(<<"ETIMEDOUT">>)],
     [message |-> <<"connect ECONNREFUSED">>, code |-> Str(<<"ECONNREFUSED">>), causeCode |-> Undef],
     [message |-> <<"500 Internal Server Error">>, code |-> Undef, causeCode |-> Undef]}

\* Promise.race (lines 626-633) settles with the first of chain.invoke and
\* timeoutPromise; the other one is still to settle
raceLoser(settled) ==
    IF settled.kind = "rejected" /\ settled.error = TimeoutError THEN "model" ELSE "timer"

settle(i, settled) ==
    step(i, afterAnalysis([inv[i] EXCEPT !.racing =
                              @ \cup {[k |-> inv[i].idx, loser |-> raceLoser(settled)]}],
                          generateComments(inv[i].oldRead.content,
                                           inv[i].newRead.content, settled)))

\* Variant: a model answer that arrives after the timer is reviewed as well
loserSettles_handled(s, e) ==
    IF e.loser = "model"
    THEN [s EXCEPT !.racing = @ \ {e}, !.late = @ \cup {e},
                   !.calls = Append(@, [op |-> "createThread", k |-> e.k,
                                        thread |-> threadOf("late", s.entries[e.k].path,
                                                            Num(1))])]
    ELSE [s EXCEPT !.racing = @ \ {e}, !.late = @ \cup {e},
                   !.outcomes = Append(@, [k |-> e.k,
                                           outcome |-> failureOutcome(<<>>, TimeoutError)])]

\* The race is decided (lines 626-633): nothing awaits the promise that
\* settles second, neither the late answer of chain.invoke nor the rejection
\* of timeoutPromise (lines 554-556)
loserSettles(s, e) == [s EXCEPT !.racing = @ \ {e}, !.late = @ \cup {e}]

\* The model answers after the timer fired, or the timer fires after the
\* model call settled
LoserSettles(i) ==
    /\ \E e \in inv[i].racing : step(i, loserSettles(inv[i], e))
    /\ UNCHANGED <<clock, env, world, remote>>

\* The model answers before the timer (lines 626-661)
ModelAnswered(i) ==
    /\ inv[i].pc = "model"
    /\ settle(i, chainSettles(world.changeEntries.items[inv[i].idx].answer))
    /\ UNCHANGED <<clock, env, world, remote>>

\* The model call fails before the timer
ModelFailed(i) ==
    /\ inv[i].pc = "model"
    /\ \E error \in TransportErrors : settle(i, [kind |-> "rejected", error |-> error])
    /\ UNCHANGED <<clock, env, world, remote>>

\* Variant: there is no timer
ModelTimedOut_never(i) ==
    /\ inv[i].pc = "model"
    /\ FALSE
    /\ UNCHANGED vars

\* The 25 second timer fires first (lines 554-556)
ModelTimedOut(i) ==
    /\ inv[i].pc = "model"
    /\ settle(i, [kind |-> "rejected", error |-> TimeoutError])
    /\ UNCHANGED <<clock, env, world, remote>>

\* Variant: a thread equal to one already on the pull request is not created
createThread_deduplicated(threads, i, thread) ==
    IF \E n \in 1..Len(threads) : threads[n] = [by |-> threads[n].by] @@ thread
    THEN threads
    ELSE Append(threads, [by |-> i] @@ thread)

\* gitApi.createThread (line 722) as the remote serves it for invocation i: a
\* new thread on the pull request
createThread(threads, i, thread) == Append(threads, [by |-> i] @@ thread)

\* gitApi.createThread returns (line 722): next comment, or lines 324-332
ThreadCreated(i) ==
    /\ inv[i].pc = "thread"
    /\ LET s == inv[i] IN
       /\ remote' = [remote EXCEPT !.threads =
                        createThread(@, i, s.calls[Len(s.calls)].thread)]
       /\ step(i, IF s.cidx < Len(s.analysis.comments)
                  THEN call([s EXCEPT !.cidx = s.cidx + 1], threadCall(s, s.cidx + 1))
                  ELSE afterThreads(s))
    /\ UNCHANGED <<clock, env, world>>

\* Variant: a rejected createThread is issued once more
threadFailed_retries(s) ==
    IF Len(s.calls) < 12 THEN call(s, s.calls[Len(s.calls)]) ELSE catchError(s)

\* Lines 312-322: the awaited createCommentThread rejects and nothing in the
\* loop catches it
threadFailed(s) == catchError(s)

\* gitApi.createThread throws
ThreadFailed(i) ==
    /\ inv[i].pc = "thread"
    /\ step(i, threadFailed(inv[i]))
    /\ UNCHANGED <<clock, env, world, remote>>

----------------------------------------------------------------------------
(* createCorrectionPR (lines 734-792).                                     *)

\* Variant: the publisher's error reaches the handler's catch
publishFailed_rethrows(s) ==
    catchError([s EXCEPT !.logs = @ \cup {"Failed to create correction PR"}])

\* Lines 789-791 and 344: the publisher's catch logs, processPullRequest goes on
publishFailed(s) ==
    finish([s EXCEPT !.logs = @ \cup {"Failed to create correction PR",
                                      "Created new PR with AI-suggested changes"}])

\* Lines 736-739: `ai-fix/${sourceBranch}-${Date.now()}`
newBranchRef(originalPR, now) ==
    <<"refs/heads/", "ai-fix/">> \o shortName(originalPR.sourceRefName.s)
        \o <<"-", ToString(now)>>

\* Variant: one commit for each correction
pushOf_commitPerCorrection(originalPR, corrections, baseCommitId, now) ==
    [refName |-> newBranchRef(originalPR, now),
     oldObjectId |-> baseCommitId,
     commits |-> [k \in 1..Len(corrections) |->
                    [changes |-> <<[path |-> corrections[k].path,
                                    commitId |-> baseCommitId,
                                    content |-> corrections[k].correctedContent]>>,
                     parents |-> <<baseCommitId>>]]]

\* Variant: the corrections are kept in one list shared by every invocation
pushOf_sharedCorrections(originalPR, corrections, baseCommitId, now) ==
    LET RECURSIVE All(_)
        All(j) == IF j > Len(inv) THEN <<>> ELSE inv[j].corrections \o All(j + 1)
    IN [refName |-> newBranchRef(originalPR, now),
        oldObjectId |-> baseCommitId,
        commits |-> <<[changes |-> [k \in 1..Len(All(1)) |->
                                       [path |-> All(1)[k].path,
                                        commitId |-> baseCommitId,
                                        content |-> All(1)[k].correctedContent]],
                       parents |-> <<baseCommitId>>]>>]

\* Lines 747-775: the push with its single commit
pushOf(originalPR, corrections, baseCommitId, now) ==
    [refName |-> newBranchRef(originalPR, now),
     oldObjectId |-> baseCommitId,
     commits |-> <<[changes |-> [k \in 1..Len(corrections) |->
                                    [path |-> corrections[k].path,
                                     commitId |-> baseCommitId,
                                     content |-> corrections[k].correctedContent]],
                    parents |-> <<baseCommitId>>]>>]

\* Variant: the correction PR keeps the original title
newPROf_plainTitle(originalPR, now) ==
    [title |-> originalPR.title.s,
     sourceRefName |-> newBranchRef(originalPR, now),
     targetRefName |-> originalPR.targetRefName.s]

\* Lines 780-785
newPROf(originalPR, now) ==
    [title |-> <<"[AI Suggested Fixes]", " ">> \o originalPR.title.s,
     sourceRefName |-> newBranchRef(originalPR, now),
     targetRefName |-> originalPR.targetRefName.s]

\* Variant: the commit id of the tip is not looked at
tipResolved_always(baseCommitId) == TRUE

\* Line 744: the tip of the source branch has a commit id
tipResolved(baseCommitId) == Truthy(baseCommitId)

\* gitApi.getBranch returns (lines 742-777)
BranchResolved(i) ==
    /\ inv[i].pc = "getBranch"
    /\ LET s == inv[i]
           baseCommitId == world.branchCommitId
       IN step(i, IF ~tipResolved(baseCommitId)
                  THEN publishFailed(s)     \* "Couldn't get base commit"
                  ELSE call([s EXCEPT !.baseCommitId = baseCommitId, !.pc = "createPush"],
                            [op |-> "createPush",
                             push |-> pushOf(s.pr, s.corrections, baseCommitId, s.now)]))
    /\ UNCHANGED <<clock, env, world, remote>>

\* gitApi.createPush returns (lines 777-787)
PushCreated(i) ==
    /\ inv[i].pc = "createPush"
    /\ LET s == inv[i] IN
       /\ remote' = [remote EXCEPT !.pushes =
                        Append(@, [by |-> i] @@ s.calls[Len(s.calls)].push)]
       /\ step(i, call([s EXCEPT !.pc = "createPullRequest"],
                       [op |-> "createPullRequest", newPR |-> newPROf(s.pr, s.now)]))
    /\ UNCHANGED <<clock, env, world>>

\* gitApi.createPullRequest returns (lines 787-788, 344)
PullRequestCreated(i) ==
    /\ inv[i].pc = "createPullRequest"
    /\ LET s == inv[i] IN
       /\ remote' = [remote EXCEPT !.prs =
                        Append(@, [by |-> i] @@ s.calls[Len(s.calls)].newPR)]
       /\ step(i, finish([s EXCEPT !.logs =
                              @ \cup {"Created new PR with AI-suggested changes"}]))
    /\ UNCHANGED <<clock, env, world>>

\* getBranch, createPush or createPullRequest throws: caught at line 789
PublishFailed(i) ==
    /\ inv[i].pc \in {"getBranch", "createPush", "createPullRequest"}
    /\ step(i, publishFailed(inv[i]))
    /\ UNCHANGED <<clock, env, world, remote>>

\* The webhook payload the service hook sends for a pull request created by
\* createPullRequest (line 787): its resource carries that title (read at
\* lines 77-87)
createdEvent(newPR) ==
    [body |-> Obj, eventType |-> Str(<<"git.pullrequest.", "created">>), resource |-> Obj,
     pullRequestId |-> Num(8), title |-> Str(newPR.title),
     repository |-> Obj,
     remoteUrl |-> Str(<<"https://", "dev.azure.com", "/", "org", "/", "proj", "/",
                         "_git", "/", "repo">>),
     testOnly |-> Undef]

MaxInvocations == 2     \* invocations of the handler in one behaviour

MaxClock == 2           \* the values Date.now() takes in one behaviour

\* Time passes (line 738 reads it): the clock advances once its value has
\* been read; an advance nobody has read in between changes nothing
Tick ==
    /\ clock < MaxClock
    /\ \E i \in DOMAIN inv : inv[i].now = clock
    /\ clock' = clock + 1
    /\ UNCHANGED <<env, world, remote, inv>>

\* The event of a created correction PR reaches the handler: a new invocation
CorrectionPRDelivered ==
    /\ Len(inv) < MaxInvocations
    /\ \E n \in 1..Len(remote.prs) :
           inv' = Append(inv, NewInvocation(createdEvent(remote.prs[n])))
    /\ UNCHANGED <<clock, env, world, remote>>

Next ==
    \/ \E i \in DOMAIN inv : Gate(i)
    \/ \E i \in DOMAIN inv : GuidelinesLoaded(i)
    \/ \E i \in DOMAIN inv : GuidelinesFailed(i)
    \/ \E i \in DOMAIN inv : GitApiReady(i)
    \/ \E i \in DOMAIN inv : RepositoriesListed(i)
    \/ \E i \in DOMAIN inv : PullRequestFetched(i)
    \/ \E i \in DOMAIN inv : IterationsListed(i)
    \/ \E i \in DOMAIN inv : ChangesListed(i)
    \/ \E i \in DOMAIN inv : RemoteReadFailed(i)
    \/ \E i \in DOMAIN inv : OldContentRead(i)
    \/ \E i \in DOMAIN inv : NewContentRead(i)
    \/ \E i \in DOMAIN inv : ContentReadFailed(i)
    \/ \E i \in DOMAIN inv : ModelAnswered(i)
    \/ \E i \in DOMAIN inv : ModelFailed(i)
    \/ \E i \in DOMAIN inv : ModelTimedOut(i)
    \/ \E i \in DOMAIN inv : ThreadCreated(i)
    \/ \E i \in DOMAIN inv : ThreadFailed(i)
    \/ \E i \in DOMAIN inv : BranchResolved(i)
    \/ \E i \in DOMAIN inv : PushCreated(i)
    \/ \E i \in DOMAIN inv : PullRequestCreated(i)
    \/ \E i \in DOMAIN inv : PublishFailed(i)
    \/ CorrectionPRDelivered
    \/ Tick

----------------------------------------------------------------------------
(* Scenarios: requests, process environments and remote worlds.            *)

MaxFiles == 2       \* changed entries of a pull request
MaxComments == 2    \* comments in one model answer (review-engine scenarios)

GoodUrl == Str(<<"https://", "dev.azure.com", "/", "org", "/", "proj", "/", "_git", "/", "repo">>)

RemoteUrls ==
    {GoodUrl,
     Str(<<"https://", "org.visualstudio.com", "/", "proj", "/", "_git", "/", "repo">>),
     Str(<<"https://", "dev.azure.com", "/", "org", "/", "/", "repo", "/">>),
     Str(<<"dev.azure.com", "/", "org", "/", "proj", "/", "_git", "/", "repo">>),
     Undef}

EventTypes ==
    {Undef, Str(<<>>), Num(5),
     Str(<<"git.", "push">>),
     Str(<<"ms.vss-code.", "git.pullrequest.", "created">>),
     Str(<<"git.pullrequest.", "created">>)}

Titles ==
    {Undef,
     Num(3),
     Str(<<"Fix", " bug">>),
     Str(<<"AI:", " tidy">>),
     Str(<<"ai:">>),
     Str(<<"Fix", " ", "ai:">>),
     Str(<<"[AI Suggested Fixes]", " ", "Fix", " bug">>),
     Str(<<"Re: ", "[AI Suggested Fixes]">>),
     Str(<<"[ai suggested fixes]", " bug">>)}

PullRequestIds == {Undef, Num(0), Num(7)}

request(eventType, pullRequestId, title, remoteUrl, testOnly) ==
    [body |-> Obj, eventType |-> eventType, resource |-> Obj,
     pullRequestId |-> pullRequestId, title |-> title,
     repository |-> Obj, remoteUrl |-> remoteUrl, testOnly |-> testOnly]

GoodRequest ==
    request(Str(<<"git.pullrequest.", "created">>), Num(7), Str(<<"Fix", " bug">>), GoodUrl, Undef)

\* Every shape of the inbound payload: a missing object leaves its fields undefined
Requests ==
    LET full == {request(et, id, ti, url, q) :
                    et \in EventTypes, id \in PullRequestIds, ti \in Titles,
                    url \in RemoteUrls, q \in {Undef, Str(<<"true">>)}}
    IN full
       \cup {[r EXCEPT !.repository = Undef, !.remoteUrl = Undef] : r \in
                {x \in full : x.remoteUrl = GoodUrl}}
       \cup {[r EXCEPT !.resource = Undef, !.pullRequestId = Undef, !.title = Undef,
                       !.repository = Undef, !.remoteUrl = Undef] : r \in
                {x \in full : x.remoteUrl = GoodUrl /\ x.title = Undef /\ x.pullRequestId = Undef}}
       \cup {[r EXCEPT !.body = Undef, !.eventType = Undef, !.resource = Undef,
                       !.pullRequestId = Undef, !.title = Undef,
                       !.repository = Undef, !.remoteUrl = Undef] : r \in
                {x \in full : x.remoteUrl = GoodUrl /\ x.title = Undef
                              /\ x.pullRequestId = Undef /\ x.eventType = Undef}}

environment(pat, source, createNewPr, azureKey, openaiKey, geminiKey) ==
    [AZURE_PAT |-> pat, INSTRUCTION_SOURCE |-> source, CREATE_NEW_PR |-> createNewPr,
     AZURE_OPENAI_API_KEY |-> azureKey, OPENAI_API_KEY |-> openaiKey,
     GEMINI_API_KEY |-> geminiKey]

Secret == Str(<<"secret">>)

\* Environments of the gate scenarios
GateEnvironments ==
    {environment(pat, src, cnp, Undef, Undef, key) :
        pat \in {Undef, Str(<<>>), Secret},
        src \in {Undef, Str(<<>>), Str(<<"guidelines.md">>)},
        cnp \in {Undef, Str(<<"TRUE">>)},
        key \in {Undef, Secret}}

\* Environments of the review scenarios: configuration complete
ReviewEnvironments ==
    {environment(Secret, Str(<<"guidelines.md">>), cnp, Undef, Undef, Secret) :
        cnp \in {Str(<<"false">>), Str(<<"true">>)}}

\* File contents
Empty == <<>>
OneLine == <<"x">>
TwoLines == <<"x", LF, "y">>
TwoLinesFixed == <<"x", LF, "z">>
CrLf == <<"y", CR, LF>>
Blank == <<SP, LF>>

\* The parsed output of the model: {comments: [...], newContent}
answer(items, newContent) ==
    [t |-> "object", comments |-> [t |-> "array", items |-> items], newContent |-> newContent]

item(lineNumber, text) == [t |-> "object", lineNumber |-> lineNumber, comment |-> text]

Unparsable == [t |-> "unparsable"]

changed(path, old, new, ans) ==
    [path |-> Str(<<path>>), isFolder |-> FALSE, old |-> old, new |-> new, answer |-> ans]

\* The changed entries the review scenarios are built from
Catalog ==
    {[path |-> Str(<<"/src">>), isFolder |-> TRUE, old |-> Empty, new |-> Empty,
      answer |-> Null],
     [path |-> Undef, isFolder |-> FALSE, old |-> Empty, new |-> OneLine, answer |-> Null],
     \* old and new content identical
     changed("/same.js", TwoLines, TwoLines,
             answer(<<item(Num(1), "a")>>, Str(TwoLinesFixed))),
     \* two comments in range and a rewritten file
     changed("/plain.js", OneLine, TwoLines,
             answer(<<item(Num(2), "a"), item(Num(1), "b")>>, Str(TwoLinesFixed))),
     \* line numbers below 1 and above the line count, file unchanged
     changed("/range.js", Empty, TwoLines,
             answer(<<item(Num(0), "a"), item(Num(5), "b")>>, Str(TwoLines))),
     \* line numbers that are no numbers, an all-whitespace rewrite
     changed("/odd.js", TwoLines, CrLf,
             answer(<<item(Undef, "a"), item(Null, "b"), item(Str(<<"2">>), "c"),
                      item(Str(<<"x">>), "d")>>, Str(Blank))),
     \* empty new content
     changed("/empty.js", OneLine, Empty,
             answer(<<item(Num(3), "a")>>, Str(OneLine))),
     \* output without newContent
     changed("/nonew.js", OneLine, TwoLines,
             [t |-> "object", comments |-> [t |-> "array", items |-> <<item(Num(1), "a")>>],
              newContent |-> Undef]),
     \* output without comments
     changed("/nocomments.js", OneLine, TwoLines,
             [t |-> "object", comments |-> Undef, newContent |-> Str(TwoLinesFixed)]),
     \* output that is no JSON
     changed("/nojson.js", OneLine, TwoLines, Unparsable)}

FileLists == UNION {[1..n -> Catalog] : n \in 0..MaxFiles}

ArrayOf(items) == [t |-> "array", items |-> items]

GoodPR ==
    [t |-> "object", isDraft |-> FALSE, pullRequestId |-> Num(7),
     sourceRefName |-> Str(<<"refs/heads/", "feature">>),
     targetRefName |-> Str(<<"refs/heads/", "main">>),
     title |-> Str(<<"Fix", " bug">>)]

PullRequests ==
    {GoodPR,
     Null,
     [GoodPR EXCEPT !.isDraft = TRUE],
     [GoodPR EXCEPT !.isDraft = TRUE, !.sourceRefName = Undef],
     [GoodPR EXCEPT !.pullRequestId = Undef],
     [GoodPR EXCEPT !.sourceRefName = Undef],
     [GoodPR EXCEPT !.targetRefName = Str(<<>>)]}

IterationLists == {<<>>, <<[id |-> Num(1)]>>, <<[id |-> Num(1)], [id |-> Num(2)]>>}

PlainFile == CHOOSE f \in Catalog : f.path = Str(<<"/plain.js">>)

GoodWorld ==
    [repoFound |-> TRUE, pr |-> GoodPR, iterations |-> <<[id |-> Num(1)]>>,
     changeEntries |-> ArrayOf(<<PlainFile>>), branchCommitId |-> Str(<<"c0ffee">>)]

\* Worlds that differ in what precedes the file loop
PreludeWorlds ==
    {[GoodWorld EXCEPT !.repoFound = r, !.pr = p, !.iterations = it] :
        r \in BOOLEAN, p \in PullRequests, it \in IterationLists}

\* Worlds that differ in the changed files
FileWorlds ==
    {[GoodWorld EXCEPT !.changeEntries = ce] :
        ce \in {Undef} \cup {ArrayOf(l) : l \in FileLists}}

\* Worlds of one changed file whose source branch has no commit id
TiplessWorlds ==
    {[GoodWorld EXCEPT !.changeEntries = ArrayOf(<<f>>), !.branchCommitId = Undef] :
        f \in Catalog}

NoWrites == [threads |-> <<>>, pushes |-> <<>>, prs |-> <<>>]

\* One invocation, for every review scenario
Init ==
    /\ clock = 1
    /\ env \in ReviewEnvironments
    /\ world \in PreludeWorlds \cup FileWorlds \cup TiplessWorlds
    /\ remote = NoWrites
    /\ inv = <<NewInvocation(GoodRequest)>>

Spec == Init /\ [][Next]_vars

\* One invocation, for every request and environment of the gate
InitGate ==
    /\ clock = 1
    /\ env \in GateEnvironments
    /\ remote = NoWrites
    /\ \E rq \in Requests :
           /\ inv = <<NewInvocation(rq)>>
           /\ world \in IF rq = GoodRequest
                         THEN {GoodWorld, [GoodWorld EXCEPT !.pr.isDraft = TRUE]}
                         ELSE {GoodWorld}

SpecGate == InitGate /\ [][Next]_vars

\* Worlds of the file-loop scenarios: a reviewable pull request whose changed
\* files are a folder, an unchanged file, and files whose model output has
\* comments in range, out of range, no newContent, or is no JSON
LoopWorlds ==
    {[GoodWorld EXCEPT !.changeEntries = ArrayOf(l)] :
        l \in UNION {[1..n -> {f \in Catalog : f.path \in {Str(<<"/src">>),
                                                            Str(<<"/same.js">>),
                                                            Str(<<"/plain.js">>),
                                                            Str(<<"/range.js">>),
                                                            Str(<<"/nonew.js">>),
                                                            Str(<<"/nojson.js">>)}}] :
                     n \in 0..MaxFiles}}

InitLoop ==
    /\ clock = 1
    /\ env \in ReviewEnvironments
    /\ world \in LoopWorlds
    /\ remote = NoWrites
    /\ inv = <<NewInvocation(GoodRequest)>>

SpecLoop == InitLoop /\ [][Next]_vars

\* Worlds of the timer scenarios: every list of MaxFiles files that reach the
\* model
LiveWorlds ==
    {[GoodWorld EXCEPT !.changeEntries = ArrayOf(l)] :
        l \in [1..MaxFiles -> {f \in Catalog : f.path \in {Str(<<"/plain.js">>),
                                                           Str(<<"/range.js">>),
                                                           Str(<<"/nojson.js">>)}}]}

InitLive ==
    /\ clock = 1
    /\ env \in ReviewEnvironments
    /\ world \in LiveWorlds
    /\ remote = NoWrites
    /\ inv = <<NewInvocation(GoodRequest)>>

\* setTimeout (line 555): once the model call is pending, the timer's callback
\* runs unless the call settles first
TimerFires == \A i \in 1..MaxInvocations : WF_vars(i \in DOMAIN inv /\ ModelTimedOut(i))

SpecLive == InitLive /\ [][Next]_vars /\ TimerFires

\* The trigger source delivers the first event a second time (lines 40-44):
\* a new invocation with the same payload
EventRedelivered ==
    /\ Len(inv) = 1
    /\ inv' = Append(inv, NewInvocation(inv[1].req))
    /\ UNCHANGED <<clock, env, world, remote>>

NextRedelivery == Next \/ EventRedelivered

InitRedelivery ==
    /\ clock = 1
    /\ env \in ReviewEnvironments
    /\ world = GoodWorld
    /\ remote = NoWrites
    /\ inv = <<NewInvocation(GoodRequest)>>

SpecRedelivery == InitRedelivery /\ [][NextRedelivery]_vars

\* Worlds of the race scenarios: every list of MaxFiles files among one whose
\* model output has comments and a correction and one whose output is no JSON
RaceWorlds ==
    {[GoodWorld EXCEPT !.changeEntries = ArrayOf(l)] :
        l \in [1..MaxFiles -> {f \in Catalog : f.path \in {Str(<<"/plain.js">>),
                                                           Str(<<"/nojson.js">>)}}]}

InitRace ==
    /\ clock = 1
    /\ env \in ReviewEnvironments
    /\ world \in RaceWorlds
    /\ remote = NoWrites
    /\ inv = <<NewInvocation(GoodRequest)>>

\* Next together with the late settlement of the promise that lost a race,
\* a step that changes nothing but the record of unsettled promises
NextRace == Next \/ \E i \in DOMAIN inv : LoserSettles(i)

SpecRace == InitRace /\ [][NextRace]_vars

\* The world after somebody else has pushed a commit to the source branch: a
\* new tip, and the changed file has other content at it
AdvancedWorld ==
    [GoodWorld EXCEPT !.branchCommitId = Str(<<"decade">>),
                      !.changeEntries = ArrayOf(<<[PlainFile EXCEPT !.new = CrLf]>>)]

\* The source branch advances while a review is under way: getItemContent
\* (line 397) and getBranch (line 742) both ask for the branch by name and
\* answer from its tip at the time of the call
SourceBranchAdvanced ==
    /\ world = GoodWorld
    /\ world' = AdvancedWorld
    /\ UNCHANGED <<clock, env, remote, inv>>

NextAdvance == Next \/ SourceBranchAdvanced

SpecAdvance == InitRedelivery /\ [][NextAdvance]_vars

\* The documented values of the MODEL_TYPE setting, and the setting unset
ModelTypes == {Undef, Str(<<"azure-openai">>), Str(<<"openai">>), Str(<<"gemini">>)}

\* Environments of the provider scenarios: any of the three provider keys,
\* with any MODEL_TYPE
ProviderEnvironments ==
    {environment(Secret, Str(<<"guidelines.md">>), Str(<<"true">>), azureKey, openaiKey,
                 geminiKey) @@ [MODEL_TYPE |-> modelType] :
        azureKey \in {Undef, Secret}, openaiKey \in {Undef, Secret},
        geminiKey \in {Undef, Secret}, modelType \in ModelTypes}

InitProviders ==
    /\ clock = 1
    /\ env \in ProviderEnvironments
    /\ world = GoodWorld
    /\ remote = NoWrites
    /\ inv = <<NewInvocation(GoodRequest)>>

SpecProviders == InitProviders /\ [][Next]_vars

----------------------------------------------------------------------------
(* The review engine alone: generateComments applied to every combination  *)
(* of contents and of what the model call settles to.                      *)

EngineContents == {Empty, TwoLines, CrLf, Blank}

EngineLineNumbers ==
    {Num(0 - 1), Num(0), Num(1), Num(2), Num(3), Undef, Null, Str(<<"2">>), Str(<<"x">>)}

EngineItems == {item(n, "a") : n \in EngineLineNumbers} \cup {Null}

EngineItemLists == UNION {[1..n -> EngineItems] : n \in 0..MaxComments}

EngineAnswers ==
    {Null, Unparsable}
    \cup {[t |-> "object", comments |-> c, newContent |-> nc] :
            c \in {Undef, Str(<<"none">>)} \cup {ArrayOf(l) : l \in EngineItemLists},
            nc \in {Undef} \cup {Str(x) : x \in EngineContents}}

EngineSettled ==
    {[kind |-> "rejected", error |-> TimeoutError]}
    \cup {[kind |-> "rejected", error |-> e] : e \in TransportErrors}
    \cup {chainSettles(a) : a \in EngineAnswers}

InitEngine ==
    /\ clock = 1
    /\ env \in {e \in ReviewEnvironments : e.CREATE_NEW_PR = Str(<<"false">>)}
    /\ \E settled \in EngineSettled : world = [settled |-> settled]
    /\ remote = NoWrites
    /\ \E old \in EngineContents, new \in EngineContents :
           inv = <<[NewInvocation(GoodRequest) EXCEPT
                       !.pc = "engine",
                       !.oldRead = [st |-> "ok", content |-> old],
                       !.newRead = [st |-> "ok", content |-> new]]>>

\* generateComments is called and returns
EngineReturns(i) ==
    /\ inv[i].pc = "engine"
    /\ step(i, [inv[i] EXCEPT !.pc = "returned",
                              !.analysis = generateComments(inv[i].oldRead.content,
                                                            inv[i].newRead.content,
                                                            world.settled)])
    /\ UNCHANGED <<clock, env, world, remote>>

NextEngine == \E i \in DOMAIN inv : EngineReturns(i)

SpecEngine == InitEngine /\ [][NextEngine]_vars

----------------------------------------------------------------------------
(* Properties.                                                             *)

Invocations == DOMAIN inv

Done(i) == inv[i].pc = "done"

\* The remote calls invocation i has issued with one of the operations `ops`
CallsOf(i, ops) == {n \in 1..Len(inv[i].calls) : inv[i].calls[n].op \in ops}

\* Invocation i has written nothing to the remote
NoWritesBy(i) ==
    /\ \A n \in 1..Len(remote.threads) : remote.threads[n].by # i
    /\ \A n \in 1..Len(remote.pushes) : remote.pushes[n].by # i
    /\ \A n \in 1..Len(remote.prs) : remote.prs[n].by # i

\* The event type is a string of the pull-request event family
PREvent(eventType) ==
    /\ eventType.t = "string"
    /\ Len(eventType.s) > 0
    /\ eventType.s[1] = "git.pullrequest."

\* C1's payloads: no body, no eventType, or a pull-request event without a
\* resource or without a pullRequestId
C1_Malformed(rq) ==
    \/ rq.body = Undef
    \/ rq.eventType = Undef
    \/ PREvent(rq.eventType) /\ (rq.resource = Undef \/ rq.pullRequestId = Undef)

\* C1: a request with an empty body, without eventType, or for a pull-request
\* event without resource or pullRequestId ends with status 400, and no remote
\* call (guidelines, version control, model) is ever made for it.
C1_MalformedRejected ==
    \A i \in Invocations :
        C1_Malformed(inv[i].req) =>
            /\ inv[i].pc \in {"start", "done"}
            /\ Done(i) => inv[i].res.status = 400
            /\ inv[i].calls = <<>>
            /\ NoWritesBy(i)

C1_Witness ==
    \E i \in Invocations :
        /\ Done(i)
        /\ inv[i].res.status = 400
        /\ PREvent(inv[i].req.eventType)
        /\ inv[i].req.resource = Obj
        /\ inv[i].req.pullRequestId = Undef
        /\ inv[i].req.title = Str(<<"Fix", " bug">>)

\* The terminal response of an ignored non-PR event
IgnoredNonPR(i) ==
    /\ inv[i].res = [status |-> 200, body |-> "Ignoring non-PR event"]
    /\ inv[i].calls = <<>>
    /\ NoWritesBy(i)

\* C2 as stated: every request whose eventType (a string) does not start with
\* 'git.pullrequest.' ends with status 200 and an 'ignored' message, without
\* any remote call.  Fails for the empty event type, which does not start
\* with the prefix and is rejected with 400 as missing.
C2_Original ==
    \A i \in Invocations :
        (inv[i].req.eventType.t = "string" /\ ~PREvent(inv[i].req.eventType) /\ Done(i))
            => IgnoredNonPR(i)

\* C2, amended: every request whose eventType is a non-empty string that does
\* not start with 'git.pullrequest.' ends with status 200 and an 'ignored'
\* message, and no remote call is ever made for it.
C2_NonPREventIgnored ==
    \A i \in Invocations :
        LET et == inv[i].req.eventType IN
        (et.t = "string" /\ et.s # <<>> /\ ~PREvent(et)) =>
            /\ inv[i].pc \in {"start", "done"}
            /\ Done(i) => IgnoredNonPR(i)
            /\ inv[i].calls = <<>>
            /\ NoWritesBy(i)

C2_Witness ==
    \E i \in Invocations :
        /\ Done(i)
        /\ IgnoredNonPR(i)
        /\ inv[i].req.eventType = Str(<<"ms.vss-code.", "git.pullrequest.", "created">>)
        /\ inv[i].req.pullRequestId = Undef

\* The titles of the scenarios that carry the AI-generated marker: the prefix
\* 'ai:' in any case, or the substring '[AI Suggested Fixes]'
C3_MarkedTitles ==
    {Str(<<"AI:", " tidy">>),
     Str(<<"ai:">>),
     Str(<<"[AI Suggested Fixes]", " ", "Fix", " bug">>),
     Str(<<"Re: ", "[AI Suggested Fixes]">>)}

C3_Skipped(i) ==
    /\ inv[i].res = [status |-> 200, body |-> "Skipped AI-generated PR"]
    /\ CallsOf(i, {"createThread", "createPush", "createPullRequest"}) = {}
    /\ NoWritesBy(i)

\* C3 as stated: every pull-request event whose title carries the marker is
\* ignored with status 200.  Fails for a pull-request event without a
\* pullRequestId, which is rejected with 400 before the title is looked at.
C3_Original ==
    \A i \in Invocations :
        (PREvent(inv[i].req.eventType) /\ inv[i].req.title \in C3_MarkedTitles /\ Done(i))
            => C3_Skipped(i)

\* C3, amended: every pull-request event that carries a pullRequestId and whose
\* title has the AI-generated marker is ignored with status 200, and no comment
\* thread, push or pull request is created (no remote call at all is made).
C3_AIGeneratedIgnored ==
    \A i \in Invocations :
        (/\ PREvent(inv[i].req.eventType)
         /\ Truthy(inv[i].req.pullRequestId)
         /\ inv[i].req.title \in C3_MarkedTitles) =>
            /\ inv[i].pc \in {"start", "done"}
            /\ Done(i) => C3_Skipped(i)
            /\ inv[i].calls = <<>>

C3_Witness ==
    \E i \in Invocations :
        /\ Done(i)
        /\ C3_Skipped(i)
        /\ inv[i].req.title = Str(<<"AI:", " tidy">>)
        /\ inv[i].req.remoteUrl = GoodUrl
        /\ Truthy(env.AZURE_PAT) /\ Truthy(env.INSTRUCTION_SOURCE)

\* The operations that review a pull request once it has been fetched
ReviewOps ==
    {"getPullRequestIterations", "getPullRequestIterationChanges", "getItemContent",
     "invoke", "createThread", "getBranch", "createPush", "createPullRequest"}

\* C4: when the fetched pull request has its draft flag set, the request ends
\* with a success status, and over the whole invocation no comment thread, push
\* or pull request is created and no iteration list, file content or model
\* call is requested.
C4_DraftSkipped ==
    \A i \in Invocations :
        (inv[i].pr.t = "object" /\ inv[i].pr.isDraft) =>
            /\ Done(i)
            /\ inv[i].res.status = 200
            /\ CallsOf(i, ReviewOps) = {}
            /\ NoWritesBy(i)

C4_Witness ==
    \E i \in Invocations :
        /\ inv[i].pr.t = "object" /\ inv[i].pr.isDraft
        /\ Done(i)
        /\ inv[i].res.status = 200
        /\ world.iterations # <<>>
        /\ world.changeEntries.t = "array" /\ world.changeEntries.items # <<>>

\* Both reads of entry k have been issued by invocation i
Fetched(i, k) ==
    \A ref \in {"target", "source"} :
        \E n \in 1..Len(inv[i].calls) :
            inv[i].calls[n] = [op |-> "getItemContent", k |-> k, ref |-> ref]

\* C5 as stated: one file's failure does not abort the remaining files, so a
\* finished request has fetched every non-folder file of the changed list.
\* Fails: a rejected content read (or thread creation) ends the request.
C5_FileFailureContained ==
    \A i \in Invocations :
        Done(i) =>
            \A k \in 1..Len(inv[i].entries) :
                reviewable(inv[i].entries[k]) => Fetched(i, k)

TimedOutMessage == Str(<<"AI model request timed out - the service may be experiencing high load">>)

\* C6 as stated: a file whose model call timed out has an outcome with no
\* comments, its new content and a 'timed out' error, gets no thread and no
\* correction, every remaining file is still processed and the request ends
\* with status 200.  Fails when a later file's read or thread creation is
\* rejected: the request then ends with 500 and the files after it are skipped.
C6_TimeoutContained ==
    \A i \in Invocations :
        \A n \in 1..Len(inv[i].outcomes) :
            LET k == inv[i].outcomes[n].k
                o == inv[i].outcomes[n].outcome
            IN o.error = TimedOutMessage =>
                /\ o.comments = <<>>
                /\ o.newContent = Str(inv[i].entries[k].new)
                /\ \A c \in CallsOf(i, {"createThread"}) : inv[i].calls[c].k # k
                /\ \A c \in 1..Len(inv[i].corrections) : inv[i].corrections[c].k # k
                /\ Done(i) =>
                    /\ inv[i].res.status = 200
                    /\ \A m \in k..Len(inv[i].entries) :
                           reviewable(inv[i].entries[m]) => Fetched(i, m)

\* The model's answer is malformed structured output
C7_Malformed(a) ==
    \/ a.t # "object"
    \/ a.comments.t # "array"
    \/ a.newContent.t # "string"

\* C7 as stated: whenever the model's output for a file is malformed (no JSON,
\* comments missing or no array, newContent missing), the outcome the file loop
\* uses is {comments: [], newContent: the new content, error: a message}.
\* Fails for an output with a comments array and no newContent.
C7_FailureIsValue ==
    \A i \in Invocations :
        \A n \in 1..Len(inv[i].outcomes) :
            LET k == inv[i].outcomes[n].k
                o == inv[i].outcomes[n].outcome
                f == inv[i].entries[k]
            IN (f.old # f.new /\ C7_Malformed(f.answer)) =>
                /\ o.comments = <<>>
                /\ o.newContent = Str(f.new)
                /\ o.error.t = "string"

\* C8: a file whose old content equals its new content gets the outcome
\* {comments: [], newContent: its content} without the model being invoked:
\* no model call, no comment thread and no correction for that file.
C8_IdenticalSkipped ==
    \A i \in Invocations :
        \A k \in 1..Len(inv[i].entries) :
            LET f == inv[i].entries[k] IN
            (reviewable(f) /\ f.old = f.new) =>
                /\ \A c \in CallsOf(i, {"invoke", "createThread"}) : inv[i].calls[c].k # k
                /\ \A c \in 1..Len(inv[i].corrections) : inv[i].corrections[c].k # k
                /\ \A n \in 1..Len(inv[i].outcomes) :
                       inv[i].outcomes[n].k = k =>
                           inv[i].outcomes[n].outcome =
                               [comments |-> <<>>, newContent |-> Str(f.new), error |-> Undef]

C8_Witness ==
    \E i \in Invocations :
        /\ Done(i)
        /\ inv[i].res.status = 200
        /\ \E n \in 1..Len(inv[i].outcomes) :
               LET f == inv[i].entries[inv[i].outcomes[n].k] IN
               /\ f.old = f.new
               /\ f.answer.t = "object"
               /\ f.answer.comments.items # <<>>
               /\ f.answer.newContent # Str(f.new)

\* The number of lines of a content: one more than its line feeds
LineCount(content) == 1 + Cardinality({j \in 1..Len(content) : content[j] = LF})

\* The engine was given differing contents and the model answered with a
\* comments array whose line numbers are all numbers
C9_Case(i) ==
    /\ inv[i].pc = "returned"
    /\ inv[i].oldRead.content # inv[i].newRead.content
    /\ world.settled.kind = "resolved"
    /\ world.settled.value.t = "object"
    /\ world.settled.value.comments.t = "array"
    /\ \A j \in 1..Len(world.settled.value.comments.items) :
           LET c == world.settled.value.comments.items[j] IN
           c.t = "object" /\ c.lineNumber.t = "number"

C9_InRange(c, lineCount) == 1 <= c.lineNumber.n /\ c.lineNumber.n <= lineCount

\* C9 as stated: the comments returned are exactly the model's comments whose
\* lineNumber lies in [1, N], unchanged; those below 1 or above N are dropped.
\* Fails: a comment below 1 or above N is returned, moved to line 1 or line N.
C9_OutOfRangeDropped ==
    \A i \in Invocations :
        C9_Case(i) =>
            LET items == world.settled.value.comments.items
                N == LineCount(inv[i].newRead.content)
                kept == SelectSeq(items, LAMBDA c : C9_InRange(c, N))
            IN inv[i].analysis.comments =
                   [j \in 1..Len(kept) |->
                        [lineNumber |-> kept[j].lineNumber, comment |-> kept[j].comment]]

C9_Anchor(n, lineCount) == IF n < 1 THEN 1 ELSE IF n > lineCount THEN lineCount ELSE n

\* C9 amended: with N the line count of the new content, every model comment
\* whose lineNumber is a number is returned, in the model's order: unchanged
\* when the number lies in [1, N], at line 1 when it is below 1 and at line N
\* when it is above N.
C9_Clamped ==
    \A i \in Invocations :
        C9_Case(i) =>
            LET items == world.settled.value.comments.items
                N == LineCount(inv[i].newRead.content)
            IN inv[i].analysis.comments =
                   [j \in 1..Len(items) |->
                        [lineNumber |-> Num(C9_Anchor(items[j].lineNumber.n, N)),
                         comment |-> items[j].comment]]

C9_Witness ==
    \E i \in Invocations :
        /\ C9_Case(i)
        /\ inv[i].newRead.content = TwoLines
        /\ world.settled.value.comments.items = <<item(Num(3), "a"), item(Num(0), "a")>>
        /\ Len(inv[i].analysis.comments) = 2
        /\ inv[i].analysis.error = Undef

\* The texts of the model's comments for file f whose lineNumber is in `values`
C10_Texts(f, values) ==
    IF f.answer.t = "object" /\ f.answer.comments.t = "array"
    THEN {f.answer.comments.items[j].comment :
            j \in {j \in 1..Len(f.answer.comments.items) :
                      /\ f.answer.comments.items[j].t = "object"
                      /\ f.answer.comments.items[j].lineNumber \in values}}
    ELSE {}

\* The line numbers of the scenarios that are no numbers
C10_NoNumbers == {Undef, Null, Str(<<"2">>), Str(<<"x">>)}

\* Those among them that Number() converts to NaN
C10_NotConvertible == {Undef, Str(<<"x">>)}

\* Every thread submitted is anchored within the new content of its file, and
\* no comment whose lineNumber is in `values` is submitted
C10_Anchored(values) ==
    \A i \in Invocations :
        \A c \in CallsOf(i, {"createThread"}) :
            LET th == inv[i].calls[c].thread
                f == inv[i].entries[inv[i].calls[c].k]
            IN /\ th.line.t = "number"
               /\ 1 <= th.line.n
               /\ th.line.n <= LineCount(f.new)
               /\ th.content[2] \notin C10_Texts(f, values)

\* C10 as stated: every thread is anchored at a line L with 1 <= L <= N, N the
\* number of lines of the file's new content, and a model comment whose
\* lineNumber is not a number is never posted.  Fails: a null lineNumber is
\* posted at line 1 and a numeric string at the line it spells.
C10_NonNumbersNeverPosted == C10_Anchored(C10_NoNumbers)

\* C10 amended: every thread is anchored at a line L with 1 <= L <= N, N >= 1
\* the number of lines of the file's new content, and a model comment whose
\* lineNumber does not convert to a number (it is missing or a non-numeric
\* string) is never posted.
C10_ThreadsAnchored ==
    /\ C10_Anchored(C10_NotConvertible)
    /\ \A n \in 1..Len(remote.threads) :
           remote.threads[n].line.t = "number" /\ remote.threads[n].line.n >= 1

C10_Witness ==
    \E i \in Invocations :
        /\ Done(i)
        /\ inv[i].res.status = 200
        /\ \E n \in 1..Len(remote.threads) :
               /\ remote.threads[n].filePath = Str(<<"/empty.js">>)
               /\ remote.threads[n].line = Num(1)
        /\ \E n \in 1..Len(remote.threads) :
               /\ remote.threads[n].filePath = Str(<<"/odd.js">>)
               /\ remote.threads[n].content[2] = "c"
               /\ remote.threads[n].line = Num(2)

\* The file loop has gone past entry k of invocation i: its correction test
\* (line 325) has run without raising
Processed(i, k) ==
    /\ \E n \in 1..Len(inv[i].outcomes) : inv[i].outcomes[n].k = k
    /\ \/ inv[i].idx > k
       \/ inv[i].pc \in {"getBranch", "createPush", "createPullRequest"}
       \/ Done(i) /\ inv[i].res.status = 200

\* The corrections invocation i holds for entry k
CorrectionsFor(i, k) ==
    {c \in 1..Len(inv[i].corrections) : inv[i].corrections[c].k = k}

NonBlank(s) == \E j \in 1..Len(s) : s[j] \notin Whitespace

\* C11: for every processed file whose outcome carries a suggested content, a
\* correction {path, originalContent = new content, correctedContent =
\* suggested content} is in the correction list if and only if the suggestion
\* differs from the new content and is not empty after trimming whitespace;
\* it is recorded once, and an all-whitespace suggestion never.
C11_CorrectionRecorded ==
    \A i \in Invocations :
        \A n \in 1..Len(inv[i].outcomes) :
            LET k == inv[i].outcomes[n].k
                o == inv[i].outcomes[n].outcome
                f == inv[i].entries[k]
            IN (Processed(i, k) /\ o.newContent.t = "string") =>
                IF o.newContent.s # f.new /\ NonBlank(o.newContent.s)
                THEN /\ Cardinality(CorrectionsFor(i, k)) = 1
                     /\ \A c \in CorrectionsFor(i, k) :
                            inv[i].corrections[c] =
                                [k |-> k, path |-> f.path, originalContent |-> f.new,
                                 correctedContent |-> o.newContent.s]
                ELSE CorrectionsFor(i, k) = {}

C11_Witness ==
    \E i \in Invocations :
        /\ Done(i)
        /\ inv[i].res.status = 200
        /\ Len(inv[i].entries) = 2
        /\ inv[i].entries[1].path = Str(<<"/plain.js">>)
        /\ inv[i].entries[2].path = Str(<<"/odd.js">>)
        /\ Len(inv[i].outcomes) = 2
        /\ inv[i].outcomes[1].outcome.newContent = Str(TwoLinesFixed)
        /\ inv[i].outcomes[2].outcome.newContent = Str(Blank)
        /\ Len(inv[i].corrections) = 1
        /\ inv[i].corrections[1].path = Str(<<"/plain.js">>)

PublishOps == {"getBranch", "createPush", "createPullRequest"}

\* CREATE_NEW_PR is enabled in the process environment
C12_Enabled == env.CREATE_NEW_PR \in {Str(<<"true">>), Str(<<"TRUE">>)}

\* What holds of C12: the publisher is entered (its branch lookup is issued) at
\* most once per request, and only with at least one correction collected, CREATE_NEW_PR
\* enabled and every changed file processed, after the last call of the file
\* loop; a request whose file loop has run to its end with a correction and
\* the option enabled has entered it; with the option disabled or with no
\* correction there is no branch lookup, push or pull-request creation.
C12_PublisherInvocation ==
    \A i \in Invocations :
        /\ Cardinality(CallsOf(i, {"getBranch"})) <= 1
        /\ \A b \in CallsOf(i, {"getBranch"}) :
               /\ Len(inv[i].corrections) >= 1
               /\ C12_Enabled
               /\ \A k \in 1..Len(inv[i].entries) :
                      reviewable(inv[i].entries[k]) => Processed(i, k)
               /\ \A c \in CallsOf(i, {"getItemContent", "invoke", "createThread"}) : c < b
        /\ (Done(i) /\ inv[i].res.status = 200
                /\ Len(inv[i].corrections) >= 1 /\ C12_Enabled)
               => CallsOf(i, {"getBranch"}) # {}
        /\ (~C12_Enabled \/ Len(inv[i].corrections) = 0)
               => /\ CallsOf(i, PublishOps) = {}
                  /\ \A n \in 1..Len(remote.pushes) : remote.pushes[n].by # i
                  /\ \A n \in 1..Len(remote.prs) : remote.prs[n].by # i

\* C12 as stated: the publisher is invoked if and only if at least one
\* correction was collected and CREATE_NEW_PR is enabled.  Fails: a request
\* that has collected a correction and is then ended by a later file's failure
\* never invokes it.
C12_InvokedIffCollected ==
    \A i \in Invocations :
        Done(i) =>
            (CallsOf(i, {"getBranch"}) # {}
                <=> (Len(inv[i].corrections) >= 1 /\ C12_Enabled))

\* The request of invocation i ended after its file loop had run to its end
Reviewed(i) ==
    /\ Done(i)
    /\ inv[i].res.status = 200
    /\ inv[i].pr.t = "object"
    /\ ~inv[i].pr.isDraft

\* The three outcome messages of lines 344-349
OutcomeMessages ==
    {"Created new PR with AI-suggested changes",
     "AI-suggested changes available",
     "No AI-suggested changes to apply."}

\* C13 as stated: with CREATE_NEW_PR disabled and a correction produced the
\* terminal response indicates that suggestions are available but unapplied,
\* so it is not the response of a review without corrections.  Fails: the
\* response is {200, "PR review completed successfully"} in every outcome.
C13_ResponseIndicates ==
    \A i \in Invocations :
        (Reviewed(i) /\ ~C12_Enabled /\ Len(inv[i].corrections) >= 1)
            => inv[i].res.body # "PR review completed successfully"

\* C13 amended: for a request whose review has run to its end, what the
\* invocation logs tells the three outcomes apart.  With
\* CREATE_NEW_PR disabled and a correction produced it logs that suggestions
\* are available, with no correction that there are no changes to apply, and
\* with the publisher entered that a new PR was created; each request logs
\* exactly one of the three, and its response is the same in all of them.
C13_LogIndicates ==
    \A i \in Invocations :
        Reviewed(i) =>
            /\ inv[i].res.body = "PR review completed successfully"
            /\ inv[i].logs \cap OutcomeMessages =
                   IF Len(inv[i].corrections) = 0
                   THEN {"No AI-suggested changes to apply."}
                   ELSE IF C12_Enabled
                   THEN {"Created new PR with AI-suggested changes"}
                   ELSE {"AI-suggested changes available"}

C13_Witness ==
    \E i \in Invocations :
        /\ Reviewed(i)
        /\ env.CREATE_NEW_PR = Str(<<"false">>)
        /\ Len(inv[i].corrections) = 2
        /\ "AI-suggested changes available" \in inv[i].logs
        /\ remote.threads # <<>>

\* The request was reviewed with the option enabled and corrections
\* collected, and no step of the publisher failed
Published(i) ==
    /\ Reviewed(i)
    /\ C12_Enabled
    /\ Len(inv[i].corrections) >= 1
    /\ "Failed to create correction PR" \notin inv[i].logs

\* C14: with CREATE_NEW_PR enabled, k >= 1 corrections and every publisher
\* step succeeding, the request makes exactly one push, which creates one
\* branch that is neither branch of the original PR, at the source branch tip,
\* with exactly one commit of k edits (correction j's path and corrected
\* content at place j) parented on that tip; then it creates exactly one pull
\* request from the new branch to the original target branch, titled
\* '[AI Suggested Fixes] ' followed by the original title.
C14_OnePushOnePR ==
    \A i \in Invocations :
        Published(i) =>
            /\ Cardinality(CallsOf(i, {"createPush"})) = 1
            /\ Cardinality(CallsOf(i, {"createPullRequest"})) = 1
            /\ \A p \in CallsOf(i, {"createPush"}), q \in CallsOf(i, {"createPullRequest"}) :
                   p < q
            /\ Len(remote.pushes) = 1
            /\ Len(remote.prs) = 1
            /\ LET push == remote.pushes[1]
                   newPR == remote.prs[1]
                   tip == world.branchCommitId
               IN /\ tip.t = "string"
                  /\ push.refName \notin {world.pr.sourceRefName.s, world.pr.targetRefName.s}
                  /\ push.oldObjectId = tip
                  /\ Len(push.commits) = 1
                  /\ push.commits[1].parents = <<tip>>
                  /\ Len(push.commits[1].changes) = Len(inv[i].corrections)
                  /\ \A j \in 1..Len(inv[i].corrections) :
                         /\ push.commits[1].changes[j].path = inv[i].corrections[j].path
                         /\ push.commits[1].changes[j].content =
                                inv[i].corrections[j].correctedContent
                  /\ newPR.sourceRefName = push.refName
                  /\ newPR.targetRefName = world.pr.targetRefName.s
                  /\ newPR.title = <<"[AI Suggested Fixes]", " ">> \o world.pr.title.s

C14_Witness ==
    \E i \in Invocations :
        /\ Published(i)
        /\ Len(inv[i].corrections) = 2
        /\ inv[i].corrections[1].path # inv[i].corrections[2].path
        /\ Len(remote.pushes) = 1
        /\ Len(remote.pushes[1].commits[1].changes) = 2
        /\ Len(remote.prs) = 1

\* The last remote call invocation i issued
LastCall(i) == inv[i].calls[Len(inv[i].calls)]

\* C15: a failure in the publisher ends the publish.  A push is requested only
\* after the branch lookup, and only with the commit id of a resolved tip; a
\* pull request is requested only after the push has been made; once a step
\* has failed the request issues no further call: after a failed lookup there
\* is no push and no pull request, after a failed push no pull request.
C15_PublishAborts ==
    \A i \in Invocations :
        /\ \A p \in CallsOf(i, {"createPush"}) :
               /\ \E b \in CallsOf(i, {"getBranch"}) : b < p
               /\ world.branchCommitId.t = "string"
               /\ world.branchCommitId.s # <<>>
               /\ inv[i].calls[p].push.oldObjectId = world.branchCommitId
        /\ \A q \in CallsOf(i, {"createPullRequest"}) :
               /\ \E p \in CallsOf(i, {"createPush"}) : p < q
               /\ Len(remote.pushes) = 1
        /\ Len(remote.prs) <= Len(remote.pushes)
        /\ "Failed to create correction PR" \in inv[i].logs =>
               /\ Done(i)
               /\ LastCall(i).op \in PublishOps
               /\ remote.prs = <<>>
               /\ LastCall(i).op = "getBranch" =>
                      CallsOf(i, {"createPush", "createPullRequest"}) = {}
               /\ LastCall(i).op \in {"getBranch", "createPush"} =>
                      remote.pushes = <<>> /\ CallsOf(i, {"createPullRequest"}) = {}

C15_Witness ==
    \E i \in Invocations :
        /\ Done(i)
        /\ "Failed to create correction PR" \in inv[i].logs
        /\ LastCall(i).op = "createPush"
        /\ remote.pushes = <<>>
        /\ remote.prs = <<>>

\* The threads invocation i has requested, in the order of its calls
RequestedThreads(i) ==
    LET RECURSIVE From(_)
        From(n) ==
            IF n > Len(inv[i].calls) THEN <<>>
            ELSE IF inv[i].calls[n].op = "createThread"
                 THEN <<[by |-> i] @@ inv[i].calls[n].thread>> \o From(n + 1)
                 ELSE From(n + 1)
    IN From(1)

\* C16: when a step of the publisher (tip lookup, push, pull-request creation)
\* has failed, the request still ends with status 200, and every comment
\* thread created before the publish attempt is still there.
C16_PublishFailureContained ==
    \A i \in Invocations :
        "Failed to create correction PR" \in inv[i].logs =>
            /\ Done(i)
            /\ inv[i].res.status = 200
            /\ remote.threads = RequestedThreads(i)

C16_Witness ==
    \E i \in Invocations :
        /\ Done(i)
        /\ inv[i].res.status = 200
        /\ "Failed to create correction PR" \in inv[i].logs
        /\ LastCall(i).op = "createPullRequest"
        /\ Len(remote.threads) >= 2
        /\ Len(remote.pushes) = 1

\* Invocation i handles the event of a pull request this system created
ForCorrectionPR(i) ==
    /\ inv[i].req.title.t = "string"
    /\ \E n \in 1..Len(remote.prs) : remote.prs[n].title = inv[i].req.title.s

\* The gate's marker, on a title as a sequence of pieces
C17_Marked(title) ==
    \/ \E n \in 1..Len(title) : title[n] = "[AI Suggested Fixes]"
    \/ Len(title) > 0 /\ title[1] \in {"ai:", "AI:", "Ai:", "aI:"}

\* C17: once the publisher has created a pull request, for every original
\* title the title the publisher gives the correction PR carries the gate's
\* marker; and an invocation for the event of a
\* correction PR this system created issues no remote call, creates no thread,
\* push or pull request, and ends ignored with status 200.
C17_NoSelfRecursion ==
    /\ remote.prs # <<>> =>
           \A ti \in Titles :
               ti.t = "string" =>
                   LET title == newPROf([GoodPR EXCEPT !.title = ti], clock).title
                   IN C17_Marked(title) /\ isAIGeneratedTitle(title)
    /\ \A i \in Invocations :
           ForCorrectionPR(i) =>
               /\ inv[i].calls = <<>>
               /\ NoWritesBy(i)
               /\ Done(i) => inv[i].res = [status |-> 200, body |-> "Skipped AI-generated PR"]
    /\ Len(remote.prs) <= 1

C17_Witness ==
    \E i \in Invocations :
        /\ i > 1
        /\ ForCorrectionPR(i)
        /\ Done(i)
        /\ inv[i].res.status = 200
        /\ Len(remote.prs) = 1
        /\ remote.prs[1].by = 1

\* AZURE_PAT or INSTRUCTION_SOURCE is absent or empty
ConfigurationMissing ==
    \/ env.AZURE_PAT \in {Undef, Str(<<>>)}
    \/ env.INSTRUCTION_SOURCE \in {Undef, Str(<<>>)}

ConfigurationError == [status |-> 500, body |-> "Missing required environment variables"]

\* C18 as stated: for every request, valid or not, a missing AZURE_PAT or
\* INSTRUCTION_SOURCE makes the request fail with the configuration error
\* (status 500), without any remote call.  Fails: an invalid payload is
\* answered with 400 (or ignored with 200) before the configuration is read.
C18_AnyPayload ==
    \A i \in Invocations :
        (ConfigurationMissing /\ Done(i)) =>
            inv[i].res = ConfigurationError /\ inv[i].calls = <<>>

\* The payload passes every test that precedes the configuration check: a
\* pull-request event with resource and pullRequestId, a title without the
\* AI-generated marker, and a repository URL with at least three path segments
C18_PayloadValid(rq) ==
    /\ rq.body = Obj
    /\ PREvent(rq.eventType)
    /\ rq.resource = Obj
    /\ rq.pullRequestId \in {Num(7), Num(8)}
    /\ rq.title.t \in {"undefined", "string"}
    /\ rq.title \notin C3_MarkedTitles
    /\ rq.repository = Obj
    /\ rq.remoteUrl \in
           {Str(<<"https://", "dev.azure.com", "/", "org", "/", "proj", "/", "_git", "/", "repo">>),
            Str(<<"https://", "org.visualstudio.com", "/", "proj", "/", "_git", "/", "repo">>)}

\* C18 amended: with AZURE_PAT or INSTRUCTION_SOURCE absent or empty, no
\* request makes a remote call (guidelines, version control, model), and
\* every request whose payload is valid, test runs included, ends with the
\* configuration error (status 500).
C18_ConfigurationRequired ==
    \A i \in Invocations :
        ConfigurationMissing =>
            /\ inv[i].calls = <<>>
            /\ NoWritesBy(i)
            /\ (Done(i) /\ C18_PayloadValid(inv[i].req)) => inv[i].res = ConfigurationError

C18_Witness ==
    \E i \in Invocations :
        /\ Done(i)
        /\ inv[i].res = ConfigurationError
        /\ C18_PayloadValid(inv[i].req)
        /\ inv[i].req.testOnly = Str(<<"true">>)
        /\ env.AZURE_PAT = Str(<<"secret">>)
        /\ env.INSTRUCTION_SOURCE = Str(<<>>)

\* C19: when loading the guidelines has failed, the request ends with status
\* 500 and the guidelines load is the only remote call it ever made: no
\* version-control operation, no model call, no comment thread.
C19_GuidelinesFailureFatal ==
    \A i \in Invocations :
        "Failed to load review guidelines" \in inv[i].logs =>
            /\ Done(i)
            /\ inv[i].res.status = 500
            /\ inv[i].calls = <<[op |-> "loadGuidelines"]>>
            /\ NoWritesBy(i)

C19_Witness ==
    \E i \in Invocations :
        /\ "Failed to load review guidelines" \in inv[i].logs
        /\ Done(i)
        /\ inv[i].res = [status |-> 500, body |-> "Failed to load review guidelines"]
        /\ world.changeEntries.t = "array"
        /\ Len(world.changeEntries.items) = 2

\* The fetched pull request lacks its id, its source ref or its target ref
C20_Lacking(pr) ==
    /\ pr.t = "object"
    /\ \/ pr.pullRequestId \in {Undef, Num(0)}
       \/ pr.sourceRefName \in {Undef, Str(<<>>)}
       \/ pr.targetRefName \in {Undef, Str(<<>>)}

C20_Draft(pr) == pr.t = "object" /\ pr.isDraft

\* The request ended with status 500 (if it ended), and fetched no file
\* content, called no model and created no thread, push or pull request
C20_Failed(i) ==
    /\ Done(i) => inv[i].res.status = 500
    /\ CallsOf(i, {"getItemContent", "invoke", "createThread"} \cup PublishOps) = {}
    /\ NoWritesBy(i)

\* C20 as stated: if the repository is not found, the fetched PR lacks an id or
\* a ref name, or the PR has zero iterations, the request ends with status 500
\* and fetches no file content, calls no model and creates nothing.  Fails
\* for a draft: the draft test comes first and the request ends with 200.
C20_InconsistentRemoteFails ==
    \A i \in Invocations :
        (~world.repoFound \/ C20_Lacking(world.pr) \/ world.iterations = <<>>)
            => C20_Failed(i)

\* C20 amended: if the repository is not found, or the fetched PR is no draft
\* and lacks an id or a ref name, or the PR is no draft and has zero
\* iterations, the request ends with status 500 and fetches no file content,
\* calls no model and creates no thread, push or pull request.
C20_InconsistentNonDraftFails ==
    \A i \in Invocations :
        (\/ ~world.repoFound
         \/ C20_Lacking(world.pr) /\ ~C20_Draft(world.pr)
         \/ world.iterations = <<>> /\ ~C20_Draft(world.pr))
            => C20_Failed(i)

C20_Witness ==
    \E i \in Invocations :
        /\ Done(i)
        /\ inv[i].res.status = 500
        /\ world.repoFound
        /\ world.pr.t = "object" /\ ~world.pr.isDraft
        /\ world.pr.targetRefName = Str(<<>>)
        /\ world.iterations # <<>>
        /\ LastCall(i).op = "getPullRequest"

\* The payload is malformed: no body, no event type, or a pull-request event
\* without resource or pull-request id
C21_Malformed(rq) ==
    \/ rq.body = Undef
    \/ rq.eventType \in {Undef, Str(<<>>)}
    \/ PREvent(rq.eventType) /\ (rq.resource = Undef \/ rq.pullRequestId \in {Undef, Num(0)})

\* The finished invocation i hit a configuration failure (a required variable
\* or every provider key missing), a guidelines failure, or a failure of the
\* repository, pull-request or iteration lookup
C21_HitFailure(i) ==
    \/ C18_PayloadValid(inv[i].req) /\ ConfigurationMissing
    \/ "Failed to load review guidelines" \in inv[i].logs
    \/ inv[i].calls = <<[op |-> "loadGuidelines"]>>
    \/ /\ inv[i].calls # <<>>
       /\ \/ LastCall(i).op \in {"getGitApi", "getRepositories", "getPullRequestIterations"}
          \/ LastCall(i).op = "getPullRequest" /\ ~C20_Draft(world.pr)

\* C21: an invocation has no response until it finishes, and then one whose
\* status is 200, 400 or 500; 400 is given to malformed payloads only, and a
\* request that hit a configuration, guidelines, repository, pull-request or
\* iteration failure ends with 500, never with 200.
C21_TerminalResponse ==
    \A i \in Invocations :
        IF ~Done(i)
        THEN inv[i].res = [status |-> 0, body |-> "none"]
        ELSE /\ inv[i].res.status \in {200, 400, 500}
             /\ inv[i].res.status = 400 => C21_Malformed(inv[i].req)
             /\ C21_HitFailure(i) => inv[i].res.status = 500

C21_Witness ==
    \E i \in Invocations :
        /\ Done(i)
        /\ inv[i].res.status = 500
        /\ inv[i].calls # <<>>
        /\ LastCall(i).op = "getRepositories"

\* The calls of invocation i with operation op for file k
FileCalls(i, op, k) == {n \in CallsOf(i, {op}) : inv[i].calls[n].k = k}

\* The outcomes generateComments returned to invocation i for file k
OutcomesFor(i, k) == {n \in 1..Len(inv[i].outcomes) : inv[i].outcomes[n].k = k}

\* The number of comments in file k's outcome, 0 when it has none
SurvivingComments(i, k) ==
    IF OutcomesFor(i, k) = {} THEN 0
    ELSE Len(inv[i].outcomes[CHOOSE n \in OutcomesFor(i, k) : TRUE].outcome.comments)

\* C22: nothing is retried. Within one invocation the model is invoked at most
\* once per file and returns at most one outcome for it, each ref of a file is
\* read at most once, a file never gets more thread-creation calls than its
\* outcome has comments and gets exactly that many once its comment loop has
\* finished, and tip lookup, push and pull-request creation are each called
\* at most once.
C22_NothingRetried ==
    \A i \in Invocations :
        /\ \A k \in 1..MaxFiles :
               /\ Cardinality(FileCalls(i, "invoke", k)) <= 1
               /\ Cardinality(OutcomesFor(i, k)) <= 1
               /\ \A ref \in {"target", "source"} :
                      Cardinality({n \in FileCalls(i, "getItemContent", k) :
                                      inv[i].calls[n].ref = ref}) <= 1
               /\ Cardinality(FileCalls(i, "createThread", k)) <= SurvivingComments(i, k)
               /\ Processed(i, k) =>
                      Cardinality(FileCalls(i, "createThread", k)) = SurvivingComments(i, k)
        /\ \A op \in PublishOps : Cardinality(CallsOf(i, {op})) <= 1

\* A thread-creation call failed with a comment still to post, and was the
\* invocation's last call
C22_Witness ==
    \E i \in Invocations :
        /\ Done(i)
        /\ inv[i].res.status = 500
        /\ inv[i].calls # <<>>
        /\ LastCall(i).op = "createThread"
        /\ Cardinality(FileCalls(i, "createThread", LastCall(i).k)) = 1
        /\ SurvivingComments(i, LastCall(i).k) = 2

\* C22 as stated: every surviving comment of a finished invocation got exactly
\* one thread-creation call, also when a call failed
C22_OneCallPerComment ==
    \A i \in Invocations :
        Done(i) =>
            \A k \in 1..MaxFiles :
                Cardinality(FileCalls(i, "createThread", k)) = SurvivingComments(i, k)

\* The provider class a MODEL_TYPE value names
C23_Named(modelType) ==
    IF modelType = Str(<<"azure-openai">>) THEN "AzureChatOpenAI"
    ELSE IF modelType = Str(<<"openai">>) THEN "ChatOpenAI"
    ELSE "ChatGoogleGenerativeAI"

\* The key of the provider a MODEL_TYPE value names
C23_KeyOf(modelType) ==
    IF modelType = Str(<<"azure-openai">>) THEN env.AZURE_OPENAI_API_KEY
    ELSE IF modelType = Str(<<"openai">>) THEN env.OPENAI_API_KEY
    ELSE env.GEMINI_API_KEY

\* C23: when MODEL_TYPE names a provider whose key is configured, the model an
\* invocation initialises is that provider's.
C23_SelectedByModelType ==
    \A i \in Invocations :
        /\ "MODEL_TYPE" \in DOMAIN env
        /\ env.MODEL_TYPE # Undef
        /\ Truthy(C23_KeyOf(env.MODEL_TYPE))
        /\ inv[i].pc \notin {"start", "loadGuidelines"}
        /\ inv[i].calls # <<[op |-> "loadGuidelines"]>>
        => inv[i].model = C23_Named(env.MODEL_TYPE)

\* The request passes every check that precedes the derivation of the
\* organization, and its remote URL parses
C24_ReachesUrl(rq) ==
    /\ rq.body = Obj
    /\ PREvent(rq.eventType)
    /\ rq.resource = Obj
    /\ rq.pullRequestId \in {Num(7), Num(8)}
    /\ rq.title.t \in {"undefined", "string"}
    /\ rq.title \notin C3_MarkedTitles
    /\ rq.repository = Obj
    /\ rq.remoteUrl.t = "string"
    /\ rq.remoteUrl.s[1] = "https://"

\* The non-empty path segments of a URL whose segments are single pieces
C24_Segments(remoteUrl) ==
    SelectSeq(SubSeq(remoteUrl.s, 3, Len(remoteUrl.s)), LAMBDA piece : piece # "/")

C25_NonPREvent(rq) ==
    /\ rq.body = Obj
    /\ rq.eventType.t = "string"
    /\ rq.eventType.s # <<>>
    /\ ~PREvent(rq.eventType)

\* A pull-request event with resource and pull-request id
C25_PullRequestEvent(rq) ==
    /\ rq.body = Obj
    /\ PREvent(rq.eventType)
    /\ rq.resource = Obj
    /\ rq.pullRequestId \in {Num(7), Num(8)}

\* The remote URL is missing, has no scheme, or has too short a path
C25_MalformedUrl(rq) ==
    \/ rq.remoteUrl = Undef
    \/ rq.remoteUrl.s[1] # "https://"
    \/ Len(C24_Segments(rq.remoteUrl)) < 3

FileOps == {"getItemContent", "invoke", "createThread"}

C26_Rank(op) == IF op = "getItemContent" THEN 1 ELSE IF op = "invoke" THEN 2 ELSE 3

\* The thread-creation calls of invocation i for file k, in call order
ThreadCallsFor(i, k) ==
    SelectSeq(inv[i].calls, LAMBDA c : c.op = "createThread" /\ c.k = k)

\* The threads invocation i has created on the remote, in creation order
ThreadsMadeBy(i) == SelectSeq(remote.threads, LAMBDA th : th.by = i)

\* The comments of file k's outcome, none when it has no outcome
CommentsOf(i, k) ==
    IF OutcomesFor(i, k) = {} THEN <<>>
    ELSE inv[i].outcomes[CHOOSE n \in OutcomesFor(i, k) : TRUE].outcome.comments

\* C26: the calls of the file loop are issued file by file in list order,
\* within a file as reads, then model, then threads; a thread-creation call
\* is answered before any later call is issued; and the j-th thread call of a
\* file carries the j-th comment of that file's outcome.
C26_OneFileAtATime ==
    \A i \in Invocations :
        /\ \A n \in CallsOf(i, FileOps) : \A m \in CallsOf(i, FileOps) :
               n < m =>
                   /\ inv[i].calls[n].k <= inv[i].calls[m].k
                   /\ inv[i].calls[n].k = inv[i].calls[m].k =>
                          C26_Rank(inv[i].calls[n].op) <= C26_Rank(inv[i].calls[m].op)
        /\ \/ ThreadsMadeBy(i) = RequestedThreads(i)
           \/ /\ inv[i].calls # <<>>
              /\ LastCall(i).op = "createThread"
              /\ ThreadsMadeBy(i) =
                     SubSeq(RequestedThreads(i), 1, Len(RequestedThreads(i)) - 1)
        /\ \A k \in 1..MaxFiles :
               /\ Len(ThreadCallsFor(i, k)) <= Len(CommentsOf(i, k))
               /\ \A j \in 1..Len(ThreadCallsFor(i, k)) :
                      ThreadCallsFor(i, k)[j].thread.content[2] = CommentsOf(i, k)[j].comment

\* Two files were reviewed, the first with two comments and the second with
\* at least one
C26_Witness ==
    \E i \in Invocations :
        /\ Done(i)
        /\ inv[i].res.status = 200
        /\ Len(ThreadCallsFor(i, 1)) = 2
        /\ ThreadCallsFor(i, 1)[1].thread.content[2] # ThreadCallsFor(i, 1)[2].thread.content[2]
        /\ Len(ThreadCallsFor(i, 2)) >= 1
        /\ Len(ThreadsMadeBy(i)) >= 3

\* Every outcome generateComments can return for entry f when it is given
\* f's own old and new content
C27_Outcomes(f) ==
    {generateComments(f.old, f.new, settled) :
        settled \in {chainSettles(f.answer), [kind |-> "rejected", error |-> TimeoutError]}
                    \cup {[kind |-> "rejected", error |-> e] : e \in TransportErrors}}

\* C27: both reads of a file are issued together; the model is invoked, and an
\* outcome exists, only when both reads have returned the file's contents;
\* every outcome is one the engine returns for the file's own old and new
\* content, whichever read returned first; and when a read fails the request
\* ends with no model call, outcome or thread for that file.
C27_ReadsJoined ==
    \A i \in Invocations :
        LET k == inv[i].idx IN
        /\ inv[i].pc = "fetch" => Fetched(i, k)
        /\ (k >= 1 /\ (FileCalls(i, "invoke", k) # {} \/ OutcomesFor(i, k) # {})) =>
               /\ inv[i].oldRead = [st |-> "ok", content |-> inv[i].entries[k].old]
               /\ inv[i].newRead = [st |-> "ok", content |-> inv[i].entries[k].new]
        /\ \A n \in 1..Len(inv[i].outcomes) :
               inv[i].outcomes[n].outcome \in C27_Outcomes(inv[i].entries[inv[i].outcomes[n].k])
        /\ ("failed" \in {inv[i].oldRead.st, inv[i].newRead.st}) =>
               /\ Done(i)
               /\ inv[i].res.status = 500
               /\ FileCalls(i, "invoke", k) = {}
               /\ FileCalls(i, "createThread", k) = {}
               /\ OutcomesFor(i, k) = {}

\* The new-content read failed after the old-content read had succeeded
C27_Witness ==
    \E i \in Invocations :
        /\ Done(i)
        /\ inv[i].oldRead.st = "ok"
        /\ inv[i].newRead.st = "failed"
        /\ inv[i].entries[inv[i].idx].old # <<>>

\* C28: whenever the model has been invoked for a file, the engine eventually
\* returns an outcome for that file, whether or not the model ever answers.
C28_EngineReturns ==
    \A i \in 1..MaxInvocations : \A k \in 1..MaxFiles :
        (i \in DOMAIN inv /\ inv[i].pc = "model" /\ inv[i].idx = k)
            ~> (i \in DOMAIN inv /\ OutcomesFor(i, k) # {})

\* The timer decided the first file's outcome and the loop went on to the next
C28_Witness ==
    \E i \in Invocations :
        /\ inv[i].idx = 2
        /\ \E n \in OutcomesFor(i, 1) :
               /\ inv[i].outcomes[n].outcome.error = TimedOutMessage
               /\ inv[i].outcomes[n].outcome.comments = <<>>

\* C29: every thread-creation call of a file is anchored to that file's path
\* and carries one comment of the file's outcome, prefixed with the marker
\* '[AI Review] '; a file whose comment loop has finished has as many calls
\* as its outcome has comments; and in a completed review every call has
\* created one thread of its own on the remote.
C29_OneThreadPerComment ==
    \A i \in Invocations :
        /\ \A k \in 1..MaxFiles :
               LET threads == ThreadCallsFor(i, k) IN
               /\ \A j \in 1..Len(threads) :
                      /\ j <= Len(CommentsOf(i, k))
                      /\ threads[j].thread.filePath = inv[i].entries[k].path
                      /\ threads[j].thread.content =
                             <<"[AI Review] ", CommentsOf(i, k)[j].comment>>
               /\ Processed(i, k) => Len(threads) = Len(CommentsOf(i, k))
        /\ (Done(i) /\ inv[i].res.status = 200) => ThreadsMadeBy(i) = RequestedThreads(i)

\* A completed review whose first file got two threads and whose second file
\* got one or more
C29_Witness ==
    \E i \in Invocations :
        /\ Done(i)
        /\ inv[i].res.status = 200
        /\ Len(CommentsOf(i, 1)) = 2
        /\ Len(CommentsOf(i, 2)) >= 1
        /\ Len(ThreadsMadeBy(i)) = Len(CommentsOf(i, 1)) + Len(CommentsOf(i, 2))
        /\ ThreadsMadeBy(i)[1].filePath = Str(<<"/plain.js">>)

\* C29 as stated: in every finished request each file has as many
\* thread-creation calls as its outcome has comments, and each call has
\* created a thread.  Fails when a thread-creation call is rejected.
C29_CallsEqualComments ==
    \A i \in Invocations :
        Done(i) =>
            /\ \A k \in 1..MaxFiles : Len(ThreadCallsFor(i, k)) = Len(CommentsOf(i, k))
            /\ ThreadsMadeBy(i) = RequestedThreads(i)

\* A thread of the remote without the invocation that created it
C30_Thread(th) == [content |-> th.content, filePath |-> th.filePath, line |-> th.line]

\* The number of threads on the remote that equal thread th
C30_Copies(th) ==
    Cardinality({n \in 1..Len(remote.threads) : C30_Thread(remote.threads[n]) = th})

\* C30: when two invocations for the same event have both completed their
\* review with the same outcomes, each has created its full set of threads,
\* one per comment, and every thread of the set is on the remote twice as
\* often as one invocation posts it.
C30_NoDeduplication ==
    \A i \in Invocations : \A j \in Invocations :
        (/\ i < j
         /\ inv[i].req = inv[j].req
         /\ Reviewed(i) /\ Reviewed(j)
         /\ inv[i].outcomes = inv[j].outcomes) =>
            /\ ThreadsMadeBy(i) = RequestedThreads(i)
            /\ ThreadsMadeBy(j) = RequestedThreads(j)
            /\ \A k \in 1..MaxFiles :
                   /\ Len(ThreadCallsFor(i, k)) = Len(CommentsOf(i, k))
                   /\ Len(ThreadCallsFor(j, k)) = Len(CommentsOf(j, k))
            /\ \A n \in 1..Len(ThreadsMadeBy(i)) :
                   LET th == C30_Thread(ThreadsMadeBy(i)[n]) IN
                   /\ C30_Thread(ThreadsMadeBy(j)[n]) = th
                   /\ C30_Copies(th) =
                          2 * Cardinality({m \in 1..Len(ThreadsMadeBy(i)) :
                                              C30_Thread(ThreadsMadeBy(i)[m]) = th})

\* Two interleaved reviews of the same event, each with two comments, have
\* left four threads
C30_Witness ==
    /\ Len(inv) = 2
    /\ inv[1].req = inv[2].req
    /\ Reviewed(1) /\ Reviewed(2)
    /\ Len(CommentsOf(1, 1)) = 2
    /\ inv[1].outcomes = inv[2].outcomes
    /\ Len(remote.threads) = 4
    /\ remote.threads[1].by # remote.threads[2].by

\* C31: two publisher runs never push to the same new branch ref.
\* Fails: two invocations that read the same Date.now() value for the same
\* source branch derive the same name.
C31_BranchNamesDiffer ==
    \A i \in Invocations : \A j \in Invocations :
        i # j =>
            \A n \in CallsOf(i, {"createPush"}) : \A m \in CallsOf(j, {"createPush"}) :
                inv[i].calls[n].push.refName # inv[j].calls[m].push.refName

\* C32: what an invocation posts, collects, pushes and answers comes from its
\* own state alone.  Each of its corrections stems from one of its own
\* outcomes and its own read of the file; the commit it pushes holds exactly
\* its own corrections; the threads it created are the ones it requested from
\* its own outcomes; its closing log message follows its own correction list;
\* and an invocation that has not reached the file loop has no corrections.
C32_RequestScoped ==
    \A i \in Invocations :
        /\ \A c \in 1..Len(inv[i].corrections) :
               LET cor == inv[i].corrections[c] IN
               /\ cor.originalContent = inv[i].entries[cor.k].new
               /\ \E n \in OutcomesFor(i, cor.k) :
                      inv[i].outcomes[n].outcome.newContent = Str(cor.correctedContent)
        /\ inv[i].idx = 0 => inv[i].corrections = <<>>
        /\ \A n \in 1..Len(remote.pushes) :
               remote.pushes[n].by = i =>
                   LET changes == remote.pushes[n].commits[1].changes IN
                   /\ Len(remote.pushes[n].commits) = 1
                   /\ Len(changes) = Len(inv[i].corrections)
                   /\ \A c \in 1..Len(changes) :
                          /\ changes[c].path = inv[i].corrections[c].path
                          /\ changes[c].content = inv[i].corrections[c].correctedContent
        /\ \A n \in 1..Len(ThreadsMadeBy(i)) :
               ThreadsMadeBy(i)[n] = RequestedThreads(i)[n]
        /\ \A k \in 1..MaxFiles : \A j \in 1..Len(ThreadCallsFor(i, k)) :
               ThreadCallsFor(i, k)[j].thread.content[2] = CommentsOf(i, k)[j].comment
        /\ Reviewed(i) =>
               ("No AI-suggested changes to apply." \in inv[i].logs
                    <=> inv[i].corrections = <<>>)

\* Two interleaved invocations of the same event: the first one's model
\* answered and its correction was pushed, the second one's model timed out
\* and it found nothing to apply
C32_Witness ==
    /\ Len(inv) = 2
    /\ inv[1].req = inv[2].req
    /\ Reviewed(1) /\ Reviewed(2)
    /\ Len(inv[1].corrections) = 1
    /\ inv[2].corrections = <<>>
    /\ "No AI-suggested changes to apply." \in inv[2].logs
    /\ \E n \in 1..Len(remote.pushes) : remote.pushes[n].by = 1
    /\ \E n \in 1..Len(remote.threads) : remote.threads[n].by = 1

\* The entry is a folder or has no path
C33_Skipped(change) == change.isFolder \/ change.path \in {Undef, Str(<<>>)}

\* C33: a folder entry or an entry without a path gets no content read, no
\* model call, no outcome, no thread and no correction, and does not stop the
\* loop: a review that completed has read every other entry.
C33_OnlyFilesReviewed ==
    \A i \in Invocations :
        \A k \in 1..Len(inv[i].entries) :
            IF C33_Skipped(inv[i].entries[k])
            THEN /\ \A op \in FileOps : FileCalls(i, op, k) = {}
                 /\ OutcomesFor(i, k) = {}
                 /\ CorrectionsFor(i, k) = {}
            ELSE Reviewed(i) => Fetched(i, k) /\ OutcomesFor(i, k) # {}

\* A completed review of a list that starts with a skipped entry and goes on
\* with a file
C33_Witness ==
    \E i \in Invocations :
        /\ Reviewed(i)
        /\ Len(inv[i].entries) = 2
        /\ C33_Skipped(inv[i].entries[1])
        /\ inv[i].entries[1].path = Undef
        /\ Fetched(i, 2)
        /\ FileCalls(i, "createThread", 2) # {}

\* The race of file k in invocation i is decided and has the loser `loser`,
\* settled late or still to settle
C34_Decided(i, k, loser) ==
    [k |-> k, loser |-> loser] \in inv[i].racing \cup inv[i].late

\* Every decided race has one outcome: the 'timed out' failure without
\* thread or correction when the timer won, an outcome without the timeout
\* error when the model call settled first; and no file has more threads than
\* its own outcome has comments or more than one correction
C34_OneOutcome ==
    \A i \in Invocations : \A k \in 1..MaxFiles :
        /\ C34_Decided(i, k, "model") =>
               /\ Cardinality(OutcomesFor(i, k)) = 1
               /\ \A n \in OutcomesFor(i, k) :
                      /\ inv[i].outcomes[n].outcome.error = TimedOutMessage
                      /\ inv[i].outcomes[n].outcome.comments = <<>>
               /\ FileCalls(i, "createThread", k) = {}
               /\ CorrectionsFor(i, k) = {}
        /\ C34_Decided(i, k, "timer") =>
               /\ Cardinality(OutcomesFor(i, k)) = 1
               /\ \A n \in OutcomesFor(i, k) :
                      inv[i].outcomes[n].outcome.error # TimedOutMessage
        /\ Len(ThreadCallsFor(i, k)) <= Len(CommentsOf(i, k))
        /\ Cardinality(CorrectionsFor(i, k)) <= 1

\* The late settlement of a race's loser changes nothing of the invocation
\* but the record of unsettled promises, and nothing on the remote
C34_LateSettlementIgnored ==
    \A i \in DOMAIN inv :
        inv'[i].late # inv[i].late =>
            /\ inv'[i] = [inv[i] EXCEPT !.racing = inv'[i].racing, !.late = inv'[i].late]
            /\ remote' = remote

\* C34: the race has a single winner per file.  After the timer won, the
\* model's late answer adds no thread and no correction to that file or a later
\* one; after the model call settled first, the timer's expiry adds no error
\* outcome and changes nothing.
C34_SingleWinner == []C34_OneOutcome /\ [][C34_LateSettlementIgnored]_vars

\* The model's answer for the first file arrived after the timer had fired,
\* while the second file was being reviewed and got its threads
C34_Witness ==
    \E i \in Invocations :
        /\ [k |-> 1, loser |-> "model"] \in inv[i].late
        /\ inv[i].entries[1].path = Str(<<"/plain.js">>)
        /\ FileCalls(i, "createThread", 1) = {}
        /\ FileCalls(i, "createThread", 2) # {}
        /\ Reviewed(i)

\* The content of changed file k at the commit commitId of the source branch
C35_ContentAt(commitId, k) ==
    IF commitId = AdvancedWorld.branchCommitId
    THEN AdvancedWorld.changeEntries.items[k].new
    ELSE GoodWorld.changeEntries.items[k].new

\* C35: every edit of a pushed correction commit was derived from the content
\* the file has at the commit the push is parented on.
\* Fails: the file is read from the branch before it advances and the tip is
\* resolved after.
C35_BasedOnParent ==
    \A i \in Invocations :
        \A n \in CallsOf(i, {"createPush"}) :
            \A c \in 1..Len(inv[i].corrections) :
                inv[i].corrections[c].originalContent =
                    C35_ContentAt(inv[i].calls[n].push.oldObjectId, inv[i].corrections[c].k)

\* The answer of a test run
TestRunCompleted == [status |-> 200, body |-> "Test run completed successfully"]

\* C36: a request with testOnly = 'true' that passes payload validation, the
\* AI-title guard, organization resolution and the configuration check ends
\* with status 200 and never issues a remote call (no guidelines load, no
\* version-control operation, no model call, no write); on a request that
\* fails one of those checks the flag changes nothing: the request gets the
\* answer the same request without the flag gets.
C36_TestRunStopsEarly ==
    \A i \in Invocations :
        inv[i].req.testOnly = Str(<<"true">>) =>
            IF C18_PayloadValid(inv[i].req) /\ ~ConfigurationMissing
            THEN /\ inv[i].calls = <<>>
                 /\ NoWritesBy(i)
                 /\ Done(i) => inv[i].res = TestRunCompleted
            ELSE Done(i) =>
                 /\ inv[i].res # TestRunCompleted
                 /\ inv[i].res =
                        gate(NewInvocation([inv[i].req EXCEPT !.testOnly = Undef]), env).res

C36_Witness ==
    \E i \in Invocations :
        /\ Done(i)
        /\ inv[i].req.testOnly = Str(<<"true">>)
        /\ C18_PayloadValid(inv[i].req)
        /\ ~ConfigurationMissing
        /\ inv[i].res = TestRunCompleted
        /\ inv[i].calls = <<>>

\* The provider the configured keys call for: Azure OpenAI before OpenAI before
\* Gemini, "none" when no key is set
C37_ByPriority ==
    IF ~Truthy(env.AZURE_OPENAI_API_KEY) /\ ~Truthy(env.OPENAI_API_KEY)
    THEN IF Truthy(env.GEMINI_API_KEY) THEN "ChatGoogleGenerativeAI" ELSE "none"
    ELSE IF Truthy(env.AZURE_OPENAI_API_KEY) THEN "AzureChatOpenAI" ELSE "ChatOpenAI"

====
